---- MODULE Spec2Model ----
(***************************************************************************)
(* PyDMG: a Game Boy (DMG) emulator.  The model covers the CPU (cpu.pyx),  *)
(* the MMU with a plain 32 KiB cartridge (mmu.pyx), the Timer (timer.pyx)  *)
(* and the PPU mode machine (ppu.pyx), wired as GameBoy.__init__ wires     *)
(* them.  One machine state is a record m of the variables' values;        *)
(* the operators below thread it through the calls the source makes, in    *)
(* the order the source makes them.                                        *)
(***************************************************************************)
EXTENDS Integers, Naturals, Sequences, FiniteSets, TLC

VARIABLES
    cpu,    \* CPU fields: a b c d e f h l sp pc halted ime halt_bug ei_delay cycles
    mmu,    \* MMU fields: io (bytearray 0x80), ie, ram (vram/wram/oam/hram, sparse)
    timer,  \* Timer fields: div (_div), tima, tma, tac, tima_cycles
    ppu,    \* PPU fields: lcdc stat ly lyc mode cycles frame_ready window_line ...
    joypad, \* Joypad fields: select (register bits 5-4), keys (pressed buttons)
    rom,    \* the cartridge image: the bytes loaded at 0x0100 (zero elsewhere)
    obs,    \* history of the last step(): what it did and what it passed on
    total,  \* running sums: T-cycles returned by step(), passed to Timer.step
            \* and passed to PPU.step
    steps,  \* number of step() calls so far (bounded)
    frame,  \* run_frame: whether a call is running, calls returned, and the
            \* history of the call (T-cycles, LY values entered)
    bus,    \* history of the bus: the last access made through MMU.read /
            \* MMU.write (or the CPU's _read) and the access before it
            \* (a write to the bank controller is kept in ctl instead and
            \* empties this history)
    mbc,    \* bank controller fields: ram_enabled rom_bank ram_bank rom_len,
            \* and for MBC1 mode rom_bank_low rom_bank_high
    ctl,    \* history of the control writes: the last value written to each
            \* of the four ranges of 0x0000..0x7FFF (-1: none yet), and in
            \* mode_prev the value written to 0x6000..0x7FFF before the last
    now,    \* the host's clock, in seconds (time.time())
    scan,    \* the framebuffer row of the line last rendered (fb[ly, 0..159]),
            \* and whether sprite memory is still as it was when it was drawn
    apu     \* the APU's fields (apu.pyx), but for the positions within the
            \* waveforms (ch1_phase, ch2_phase, ch3_phase), which only pick the
            \* sample put in the audio buffer

vars == <<cpu, mmu, timer, ppu, joypad, rom, obs, total, steps, frame, bus, mbc, ctl, now,
         scan,
         apu>>

(***************************************************************************)
(* Bit operations on naturals (C integer operators of the source).         *)
(***************************************************************************)
RECURSIVE And(_, _)
And(x, y) ==
    IF x = 0 \/ y = 0 THEN 0
    ELSE ((x % 2) * (y % 2)) + 2 * And(x \div 2, y \div 2)

RECURSIVE Or(_, _)
Or(x, y) ==
    IF x = 0 THEN y
    ELSE IF y = 0 THEN x
    ELSE (IF (x % 2) + (y % 2) > 0 THEN 1 ELSE 0) + 2 * Or(x \div 2, y \div 2)

RECURSIVE Xor(_, _)
Xor(x, y) ==
    IF x = 0 THEN y
    ELSE IF y = 0 THEN x
    ELSE (((x % 2) + (y % 2)) % 2) + 2 * Xor(x \div 2, y \div 2)

Shl(x, n) == x * (2 ^ n)
Shr(x, n) == x \div (2 ^ n)
\* x & ~mask for a uint8_t x
AndNot8(x, mask) == And(x, 255 - And(mask, 255))
Byte == 0 .. 255

(***************************************************************************)
(* Timer (timer.pyx)                                                       *)
(***************************************************************************)
FREQS == <<1024, 16, 64, 256>>

TimerInit == [div |-> 0, tima |-> 0, tma |-> 0, tac |-> 0, tima_cycles |-> 0]

\* the while loop reloading TIMA without requesting the interrupt
RECURSIVE TimaLoopSilent(_, _, _, _, _)
TimaLoopSilent(tc, tima, tma, freq, irq) ==
    IF tc >= freq
    THEN LET t1 == (tima + 1) % 256
         IN  TimaLoopSilent(tc - freq, IF t1 = 0 THEN tma ELSE t1, tma, freq, irq)
    ELSE [tima_cycles |-> tc, tima |-> tima, irq |-> irq]

\* the while loop of Timer.step: tc = tima_cycles, irq = IF bit 2 requests
RECURSIVE TimaLoop(_, _, _, _, _)
TimaLoop(tc, tima, tma, freq, irq) ==
    IF tc >= freq
    THEN LET t1 == (tima + 1) % 256
         IN  IF t1 = 0
             THEN TimaLoop(tc - freq, tma, tma, freq, 4)
             ELSE TimaLoop(tc - freq, t1, tma, freq, irq)
    ELSE [tima_cycles |-> tc, tima |-> tima, irq |-> irq]

\* obs.raised accumulates the IF bits the components request during a step
RaiseIF(m, bits) ==
    [m EXCEPT !.mmu.io[15] = Or(@, bits), !.obs.raised = Or(@, bits)]

\* Timer.step with the overflow leaving TIMA at 0 (no reload from TMA)
TimerStepNoReload(m, cycles) ==
    LET t  == m.timer
        m1 == [m EXCEPT !.timer.div = (t.div + cycles) % 65536,
                        !.obs.tadv = @ + cycles]
    IN  IF And(t.tac, 4) # 0
        THEN LET r == TimaLoop(t.tima_cycles + cycles, t.tima, 0,
                               FREQS[And(t.tac, 3) + 1], 0)
                 m2 == [m1 EXCEPT !.timer.tima_cycles = r.tima_cycles,
                                  !.timer.tima = r.tima]
             IN  IF r.irq # 0 THEN RaiseIF(m2, 4) ELSE m2
        ELSE m1

TimerStep(m, cycles) ==
    LET t  == m.timer
        m1 == [m EXCEPT !.timer.div = (t.div + cycles) % 65536,
                        !.obs.tadv = @ + cycles]
    IN  IF And(t.tac, 4) # 0
        THEN LET r == TimaLoop(t.tima_cycles + cycles, t.tima, t.tma,
                               FREQS[And(t.tac, 3) + 1], 0)
                 m2 == [m1 EXCEPT !.timer.tima_cycles = r.tima_cycles,
                                  !.timer.tima = r.tima]
             IN  IF r.irq # 0 THEN RaiseIF(m2, 4) ELSE m2
        ELSE m1

(***************************************************************************)
(* PPU (ppu.pyx): the mode state machine of PPU.step                       *)
(***************************************************************************)
PpuInit ==
    [lcdc |-> \H91, stat |-> \H85, scy |-> 0, scx |-> 0, ly |-> 0, lyc |-> 0,
     bgp |-> \HFC, obp0 |-> \HFF, obp1 |-> \HFF, wy |-> 0, wx |-> 0,
     mode |-> 2, cycles |-> 0, frame_ready |-> FALSE, window_line |-> 0]

\* property stat (getter)
PpuStatGet(p) == Or(And(p.stat, \HFC), p.mode)

\* _check_lyc without its else branch: the coincidence bit is never cleared
CheckLycNoClear(m) ==
    IF m.ppu.ly = m.ppu.lyc
    THEN LET m1 == [m EXCEPT !.ppu.stat = Or(@, 4)]
         IN  IF And(m1.ppu.stat, \H40) # 0 THEN RaiseIF(m1, 2) ELSE m1
    ELSE m

CheckLyc(m) ==
    IF m.ppu.ly = m.ppu.lyc
    THEN LET m1 == [m EXCEPT !.ppu.stat = Or(@, 4)]
         IN  IF And(m1.ppu.stat, \H40) # 0 THEN RaiseIF(m1, 2) ELSE m1
    ELSE [m EXCEPT !.ppu.stat = AndNot8(@, 4)]

\* _render_window counting the line even when the window is off screen
RenderWindowCountsAll(m) == [m EXCEPT !.ppu.window_line = @ + 1]

\* _render_window: only its effect on window_line (the framebuffer is not
\* part of this state)
RenderWindow(m) ==
    IF m.ppu.wx - 7 >= 160 THEN m
    ELSE [m EXCEPT !.ppu.window_line = @ + 1]

RenderScanline(m) ==
    IF m.ppu.ly >= 144 THEN m
    ELSE IF And(m.ppu.lcdc, \H20) # 0 /\ m.ppu.wy <= m.ppu.ly
         THEN RenderWindow(m)
         ELSE m

\* StatIrq requesting the STAT interrupt whatever the enable bit says
StatIrqAlways(m, bit) == RaiseIF(m, 2)

StatIrq(m, bit) == IF And(m.ppu.stat, bit) # 0 THEN RaiseIF(m, 2) ELSE m

\* the VBlank branch wrapping LY one line late ("> 154" for ">= 154")
VBlankLineLate(m) ==
    IF m.ppu.cycles >= 456
    THEN LET ly1 == (m.ppu.ly + 1) % 256
             m2  == [m EXCEPT !.ppu.cycles = @ - 456, !.ppu.ly = ly1]
         IN  IF ly1 > 154
             THEN CheckLyc(StatIrq(
                      [m2 EXCEPT !.ppu.ly = 0, !.ppu.window_line = 0,
                                 !.ppu.mode = 2], \H20))
             ELSE CheckLyc(m2)
    ELSE m

\* the VBlank branch with a line of 452 cycles ("452" for "456")
VBlankLineShort(m) ==
    IF m.ppu.cycles >= 452
    THEN LET ly1 == (m.ppu.ly + 1) % 256
             m2  == [m EXCEPT !.ppu.cycles = @ - 452, !.ppu.ly = ly1]
         IN  IF ly1 >= 154
             THEN CheckLyc(StatIrq(
                      [m2 EXCEPT !.ppu.ly = 0, !.ppu.window_line = 0,
                                 !.ppu.mode = 2], \H20))
             ELSE CheckLyc(m2)
    ELSE m

\* the VBlank branch requesting the VBlank interrupt on every line it starts
VBlankLineReraises(m) ==
    IF m.ppu.cycles >= 456
    THEN LET ly1 == (m.ppu.ly + 1) % 256
             m2  == [m EXCEPT !.ppu.cycles = @ - 456, !.ppu.ly = ly1]
         IN  IF ly1 >= 154
             THEN CheckLyc(StatIrq(
                      [m2 EXCEPT !.ppu.ly = 0, !.ppu.window_line = 0,
                                 !.ppu.mode = 2], \H20))
             ELSE CheckLyc(RaiseIF(m2, 1))
    ELSE m

\* the VBlank branch wrapping LY without leaving mode 1
VBlankLineKeepsMode(m) ==
    IF m.ppu.cycles >= 456
    THEN LET ly1 == (m.ppu.ly + 1) % 256
             m2  == [m EXCEPT !.ppu.cycles = @ - 456, !.ppu.ly = ly1]
         IN  IF ly1 >= 154
             THEN CheckLyc(StatIrq(
                      [m2 EXCEPT !.ppu.ly = 0, !.ppu.window_line = 0], \H20))
             ELSE CheckLyc(m2)
    ELSE m

\* the VBlank (mode 1) branch of PPU.step, cycles already added
VBlankLine(m) ==
    IF m.ppu.cycles >= 456
    THEN LET ly1 == (m.ppu.ly + 1) % 256
             m2  == [m EXCEPT !.ppu.cycles = @ - 456, !.ppu.ly = ly1]
         IN  IF ly1 >= 154
             THEN CheckLyc(StatIrq(
                      [m2 EXCEPT !.ppu.ly = 0, !.ppu.window_line = 0,
                                 !.ppu.mode = 2], \H20))
             ELSE CheckLyc(m2)
    ELSE m

PpuStep(m, cycles) ==
    LET m0 == [m EXCEPT !.obs.padv = @ + cycles]
    IN
    IF And(m.ppu.lcdc, \H80) = 0 THEN m0
    ELSE
    LET m1 == [m0 EXCEPT !.ppu.cycles = @ + cycles]
        c  == m1.ppu.cycles
    IN  CASE m1.ppu.mode = 2 ->
               IF c >= 80
               THEN [m1 EXCEPT !.ppu.cycles = c - 80, !.ppu.mode = 3]
               ELSE m1
          [] m1.ppu.mode = 3 ->
               IF c >= 172
               THEN StatIrq(RenderScanline(
                        [m1 EXCEPT !.ppu.cycles = c - 172, !.ppu.mode = 0]), 8)
               ELSE m1
          [] m1.ppu.mode = 0 ->
               IF c >= 204
               THEN LET ly1 == (m1.ppu.ly + 1) % 256
                        m2  == [m1 EXCEPT !.ppu.cycles = c - 204, !.ppu.ly = ly1]
                    IN  IF ly1 = 144
                        THEN CheckLyc(StatIrq(RaiseIF(
                                 [m2 EXCEPT !.ppu.mode = 1,
                                            !.ppu.frame_ready = TRUE], 1), \H10))
                        ELSE CheckLyc(StatIrq([m2 EXCEPT !.ppu.mode = 2], \H20))
               ELSE m1
          [] OTHER -> VBlankLine(m1)

(***************************************************************************)
(* Cartridge: NoMBC over a 32 KiB image (mmu.pyx).  The image holds the    *)
(* program `rom` from 0x0100 on and zeros everywhere else.                 *)
(***************************************************************************)
ProgBase == \H0100
RomLen == \H8000

RomByte(addr) ==
    IF addr >= ProgBase /\ addr < ProgBase + Len(rom)
    THEN rom[addr - ProgBase + 1]
    ELSE 0

\* NoMBC.read_rom
MbcReadRom(addr) == IF addr < RomLen THEN RomByte(addr) ELSE \HFF

\* MBC.read_ram with ram_enabled = False (NoMBC never sets it)
MbcReadRam(addr) == \HFF

\* MBC.__init__
MbcInit(len) ==
    [ram_enabled |-> FALSE, rom_bank |-> 1, ram_bank |-> 0, rom_len |-> len]

\* MBC1.__init__
Mbc1Init(len) ==
    [mode |-> 0, rom_bank_low |-> 1, rom_bank_high |-> 0] @@ MbcInit(len)

\* the image of an MBC1 cartridge: the byte at an offset tells its bank and,
\* within the bank, its place
CartByte(off) == ((off \div \H4000) + (off % \H4000) * 5) % 256

CartRead(c, off) == IF off < c.rom_len THEN CartByte(off) ELSE \HFF

\* MBC1.read_rom
Mbc1ReadRom(c, addr) ==
    IF addr < \H4000
    THEN IF c.mode = 1
         THEN CartRead(c, Shl(c.rom_bank_high, 5) * \H4000 + addr)
         ELSE CartRead(c, addr)
    ELSE CartRead(c, Or(Shl(c.rom_bank_high, 5), c.rom_bank_low) * \H4000
                     + (addr - \H4000))

\* MBC1.write_control keeping a bank-low value of 0
Mbc1WriteControlNoRemap(c, addr, value) ==
    IF addr < \H2000 THEN [c EXCEPT !.ram_enabled = (And(value, \H0F) = \H0A)]
    ELSE IF addr < \H4000 THEN [c EXCEPT !.rom_bank_low = And(value, \H1F)]
    ELSE IF addr < \H6000
    THEN [c EXCEPT !.rom_bank_high = And(value, 3), !.ram_bank = And(value, 3)]
    ELSE [c EXCEPT !.mode = And(value, 1)]

\* MBC1.write_control
Mbc1WriteControl(c, addr, value) ==
    IF addr < \H2000 THEN [c EXCEPT !.ram_enabled = (And(value, \H0F) = \H0A)]
    ELSE IF addr < \H4000
    THEN [c EXCEPT !.rom_bank_low =
                      IF And(value, \H1F) = 0 THEN 1 ELSE And(value, \H1F)]
    ELSE IF addr < \H6000
    THEN [c EXCEPT !.rom_bank_high = And(value, 3), !.ram_bank = And(value, 3)]
    ELSE [c EXCEPT !.mode = And(value, 1)]

(***************************************************************************)
(* Joypad (joypad.py is not among the sources; register 0xFF00 as the      *)
(* specification describes it).                                            *)
(***************************************************************************)
JoypadInit == [select |-> 0, keys |-> {}]

\* keys are numbered 0..3 in the direction row and 4..7 in the action row;
\* a row is selected when its select bit (4: directions, 5: actions) is 0
JoypadRow(j, row) ==
    LET pressed(k) == (row * 4 + k) \in j.keys
    IN  (IF pressed(0) THEN 1 ELSE 0) + (IF pressed(1) THEN 2 ELSE 0)
        + (IF pressed(2) THEN 4 ELSE 0) + (IF pressed(3) THEN 8 ELSE 0)

JoypadRead(j) ==
    LET dirs == IF And(j.select, \H10) = 0 THEN JoypadRow(j, 0) ELSE 0
        acts == IF And(j.select, \H20) = 0 THEN JoypadRow(j, 1) ELSE 0
    IN  \HC0 + j.select + (15 - Or(dirs, acts))

JoypadWrite(j, value) == [j EXCEPT !.select = And(value, \H30)]

(***************************************************************************)
(* MMU (mmu.pyx)                                                           *)
(***************************************************************************)
IoDefaults ==
    (0 :> \HCF) @@ (1 :> 0) @@ (2 :> \H7E) @@ (4 :> \HAB) @@
    (5 :> 0) @@ (6 :> 0) @@ (7 :> \HF8) @@ (15 :> \HE1) @@
    (\H10 :> \H80) @@ (\H11 :> \HBF) @@ (\H12 :> \HF3) @@ (\H14 :> \HBF) @@
    (\H16 :> \H3F) @@ (\H17 :> 0) @@ (\H19 :> \HBF) @@ (\H1A :> \H7F) @@
    (\H1B :> \HFF) @@ (\H1C :> \H9F) @@ (\H1E :> \HBF) @@ (\H20 :> \HFF) @@
    (\H21 :> 0) @@ (\H22 :> 0) @@ (\H23 :> \HBF) @@ (\H24 :> \H77) @@
    (\H25 :> \HF3) @@ (\H26 :> \HF1) @@ (\H40 :> \H91) @@ (\H41 :> \H85) @@
    (\H42 :> 0) @@ (\H43 :> 0) @@ (\H44 :> 0) @@ (\H45 :> 0) @@
    (\H46 :> \HFF) @@ (\H47 :> \HFC) @@ (\H48 :> \HFF) @@ (\H49 :> \HFF) @@
    (\H4A :> 0) @@ (\H4B :> 0)

EmptyRam == [a \in {} |-> 0]

\* MMU.__init__ and _init_io; ram holds vram, wram, oam and hram by address,
\* an address it does not hold reads 0 (bytearray zero fill)
MmuInit ==
    [io  |-> [r \in 0 .. 127 |-> IF r \in DOMAIN IoDefaults THEN IoDefaults[r] ELSE 0],
     ie  |-> 0,
     ram |-> EmptyRam]

RamGet(ram, a) == IF a \in DOMAIN ram THEN ram[a] ELSE 0

RamSet(ram, a, v) ==
    LET dom == (DOMAIN ram \ {a}) \cup (IF v # 0 THEN {a} ELSE {})
    IN  [x \in dom |-> IF x = a THEN v ELSE ram[x]]

ReadIo(m, addr) ==
    LET reg == And(addr, \H7F)
    IN  CASE reg = 0 -> JoypadRead(m.joypad)
          [] reg = 4 -> And(Shr(m.timer.div, 8), \HFF)
          [] reg = 5 -> m.timer.tima
          [] reg = \H41 -> Or(And(PpuStatGet(m.ppu), \HFC), m.ppu.mode)
          [] reg = \H44 -> m.ppu.ly
          [] OTHER -> m.mmu.io[reg]

MmuRead(m, addr0) ==
    LET addr == And(addr0, \HFFFF)
    IN  IF addr < \H8000 THEN MbcReadRom(addr)
        ELSE IF addr < \HA000 THEN RamGet(m.mmu.ram, addr)
        ELSE IF addr < \HC000 THEN MbcReadRam(addr)
        ELSE IF addr < \HE000 THEN RamGet(m.mmu.ram, addr)
        ELSE IF addr < \HFE00 THEN RamGet(m.mmu.ram, addr - \HE000 + \HC000)
        ELSE IF addr < \HFEA0 THEN RamGet(m.mmu.ram, addr)
        ELSE IF addr < \HFF00 THEN \HFF
        ELSE IF addr < \HFF80 THEN ReadIo(m, addr)
        ELSE IF addr < \HFFFF THEN RamGet(m.mmu.ram, addr)
        ELSE m.mmu.ie

\* MMU._dma reading from page 0 upwards ("value" for "value << 8")
DmaNoShift(m, value) ==
    LET oam == \HFE00 .. \HFE9F
        new == [a \in oam |-> MmuRead(m, value + (a - \HFE00))]
        dom == (DOMAIN m.mmu.ram \ oam) \cup {a \in oam : new[a] # 0}
    IN  [m EXCEPT !.mmu.ram = [a \in dom |-> IF a \in oam THEN new[a]
                                                        ELSE m.mmu.ram[a]]]

\* MMU._dma: oam[i] = read(src + i) for the 160 bytes of OAM
Dma(m, value) ==
    LET src == Shl(value, 8)
        oam == \HFE00 .. \HFE9F
        new == [a \in oam |-> MmuRead(m, src + (a - \HFE00))]
        dom == (DOMAIN m.mmu.ram \ oam) \cup {a \in oam : new[a] # 0}
    IN  [m EXCEPT !.mmu.ram = [a \in dom |-> IF a \in oam THEN new[a]
                                                        ELSE m.mmu.ram[a]]]

\* Timer.div setter that leaves the counter alone
DivSetKeeps(m, value) == m

\* Timer.div setter: any value resets the counter
DivSet(m, value) == [m EXCEPT !.timer.div = 0]

WriteIo(m, addr, value) ==
    LET reg == And(addr, \H7F)
        st(mm) == [mm EXCEPT !.mmu.io[reg] = value]
    IN  CASE reg = 0 -> st([m EXCEPT !.joypad = JoypadWrite(@, value)])
          [] reg = 4 -> [DivSet(m, 0) EXCEPT !.mmu.io[reg] = 0]
          [] reg = 5 -> st([m EXCEPT !.timer.tima = value])
          [] reg = 6 -> st([m EXCEPT !.timer.tma = value])
          [] reg = 7 -> st([m EXCEPT !.timer.tac = value])
          [] reg = \H40 -> st([m EXCEPT !.ppu.lcdc = value])
          [] reg = \H41 ->
               st([m EXCEPT !.ppu.stat =
                      Or(And(PpuStatGet(m.ppu), 7), And(value, \HF8))])
          [] reg = \H42 -> st([m EXCEPT !.ppu.scy = value])
          [] reg = \H43 -> st([m EXCEPT !.ppu.scx = value])
          [] reg = \H45 -> st([m EXCEPT !.ppu.lyc = value])
          [] reg = \H46 -> st(Dma(m, value))
          [] reg = \H47 -> st([m EXCEPT !.ppu.bgp = value])
          [] reg = \H48 -> st([m EXCEPT !.ppu.obp0 = value])
          [] reg = \H49 -> st([m EXCEPT !.ppu.obp1 = value])
          [] reg = \H4A -> st([m EXCEPT !.ppu.wy = value])
          [] reg = \H4B -> st([m EXCEPT !.ppu.wx = value])
          [] OTHER -> st(m)

MmuWrite(m, addr0, value0) ==
    LET addr  == And(addr0, \HFFFF)
        value == And(value0, \HFF)
        ramw(a) == [m EXCEPT !.mmu.ram = RamSet(@, a, value)]
    IN  IF addr < \H8000 THEN m
        ELSE IF addr < \HA000 THEN ramw(addr)
        ELSE IF addr < \HC000 THEN m
        ELSE IF addr < \HE000 THEN ramw(addr)
        ELSE IF addr < \HFE00 THEN ramw(addr - \HE000 + \HC000)
        ELSE IF addr < \HFEA0 THEN ramw(addr)
        ELSE IF addr < \HFF00 THEN m
        ELSE IF addr < \HFF80 THEN WriteIo(m, addr, value)
        ELSE IF addr < \HFFFF THEN ramw(addr)
        ELSE [m EXCEPT !.mmu.ie = value]

(***************************************************************************)
(* CPU (cpu.pyx): inline helpers.  An operator that yields a datum returns *)
(* the pair <<machine after the access, datum>>.                           *)
(***************************************************************************)
CpuInit ==
    [a |-> \H01, f |-> \HB0, b |-> \H00, c |-> \H13, d |-> \H00, e |-> \HD8,
     h |-> \H01, l |-> \H4D, sp |-> \HFFFE, pc |-> \H0100,
     halted |-> FALSE, ime |-> FALSE, ei_delay |-> 0, halt_bug |-> FALSE,
     cycles |-> 0]

\* a local variable of the source: v is computed once and named in F
Let(v, F(_)) == F(v)

\* _tick without its "self.mmu.ppu.step(t)"
TickTimerOnly(m, m_cycles) ==
    LET t == Shl(m_cycles, 2)
    IN  TimerStep([m EXCEPT !.cpu.cycles = @ + t], t)

Tick(m, m_cycles) ==
    LET t == Shl(m_cycles, 2)
    IN  PpuStep(TimerStep([m EXCEPT !.cpu.cycles = @ + t], t), t)

Fetch(m) ==
    LET pc == m.cpu.pc
        v  == MmuRead(m, pc)
    IN  <<Tick([m EXCEPT !.cpu.pc = And(pc + 1, \HFFFF)], 1), v>>

FetchWord(m) ==
    Let(Fetch(m), LAMBDA lo :
    Let(Fetch(lo[1]), LAMBDA hi :
        <<hi[1], Or(Shl(hi[2], 8), lo[2])>>))

Read(m, addr) ==
    Let(Tick(m, 1), LAMBDA m1 : <<m1, MmuRead(m1, addr)>>)

Write(m, addr, v) == MmuWrite(Tick(m, 1), addr, v)

PushWord(m, value) ==
    LET sp1 == (m.cpu.sp - 1) % 65536
        m1  == Write([m EXCEPT !.cpu.sp = sp1], sp1, And(Shr(value, 8), \HFF))
        sp2 == (sp1 - 1) % 65536
    IN  Write([m1 EXCEPT !.cpu.sp = sp2], sp2, And(value, \HFF))

PopWord(m) ==
    Let(Read(m, m.cpu.sp), LAMBDA lo :
    Let([lo[1] EXCEPT !.cpu.sp = And(@ + 1, \HFFFF)], LAMBDA m1 :
    Let(Read(m1, m1.cpu.sp), LAMBDA hi :
        <<[hi[1] EXCEPT !.cpu.sp = And(@ + 1, \HFFFF)],
          Or(Shl(hi[2], 8), lo[2])>>)))

\* register pairs, (hi << 8) | lo
BC(m) == Shl(m.cpu.b, 8) + m.cpu.c
DE(m) == Shl(m.cpu.d, 8) + m.cpu.e
HL(m) == Shl(m.cpu.h, 8) + m.cpu.l

SetBC(m, v) == [m EXCEPT !.cpu.b = And(Shr(v, 8), \HFF), !.cpu.c = And(v, \HFF)]
SetDE(m, v) == [m EXCEPT !.cpu.d = And(Shr(v, 8), \HFF), !.cpu.e = And(v, \HFF)]
SetHL(m, v) == [m EXCEPT !.cpu.h = And(Shr(v, 8), \HFF), !.cpu.l = And(v, \HFF)]

\* register index r of _get_reg / _set_reg: 0 b, 1 c, 2 d, 3 e, 4 h, 5 l, 7 a
RegName == <<"b", "c", "d", "e", "h", "l", "hl", "a">>

GetReg(m, r) ==
    IF r = 6 THEN Read(m, HL(m)) ELSE <<m, m.cpu[RegName[r + 1]]>>

SetReg(m, r, v) ==
    IF r = 6 THEN Write(m, HL(m), v) ELSE [m EXCEPT !.cpu[RegName[r + 1]] = v]

\* pair index of the 0x01/0x03/0x09/0x0B opcode columns: 0 BC, 1 DE, 2 HL, 3 SP
GetPair(m, p) ==
    CASE p = 0 -> BC(m) [] p = 1 -> DE(m) [] p = 2 -> HL(m) [] OTHER -> m.cpu.sp

SetPair(m, p, v) ==
    CASE p = 0 -> SetBC(m, v) [] p = 1 -> SetDE(m, v) [] p = 2 -> SetHL(m, v)
      [] OTHER -> [m EXCEPT !.cpu.sp = And(v, \HFFFF)]

Signed8(n) == IF n > 127 THEN n - 256 ELSE n

Z(r) == IF r = 0 THEN \H80 ELSE 0
Flag(cond, bit) == IF cond THEN bit ELSE 0

(***************************************************************************)
(* CPU: instruction helpers.  The source spells each opcode out; opcodes   *)
(* that differ only in the register they name share one operator here.     *)
(***************************************************************************)
SetF(m, f) == [m EXCEPT !.cpu.f = f]

\* INC r / INC (HL): 0x04 0x0C 0x14 0x1C 0x24 0x2C 0x34 0x3C
IncR(m, r) ==
    Let(GetReg(m, r), LAMBDA g :
        LET v  == g[2]
            r1 == And(v + 1, \HFF)
            f1 == Or(Or(And(g[1].cpu.f, \H10), Z(r1)),
                     Flag(And(v, \HF) = \HF, \H20))
        IN  SetReg(SetF(g[1], f1), r, r1))

\* DEC r / DEC (HL): 0x05 0x0D 0x15 0x1D 0x25 0x2D 0x35 0x3D
DecR(m, r) ==
    Let(GetReg(m, r), LAMBDA g :
        LET v  == g[2]
            r1 == (v - 1) % 256
            f1 == Or(Or(Or(And(g[1].cpu.f, \H10), \H40), Z(r1)),
                     Flag(And(v, \HF) = 0, \H20))
        IN  SetReg(SetF(g[1], f1), r, r1))

\* LD r,n / LD (HL),n: 0x06 0x0E 0x16 0x1E 0x26 0x2E 0x36 0x3E
LdRN(m, r) == Let(Fetch(m), LAMBDA n : SetReg(n[1], r, n[2]))

\* LD rr,nn: 0x01 0x11 0x21 0x31
LdRRNN(m, p) == Let(FetchWord(m), LAMBDA w : SetPair(w[1], p, w[2]))

\* INC rr / DEC rr: 0x03 0x13 0x23 0x33 / 0x0B 0x1B 0x2B 0x3B
IncRR(m, p) == Tick(SetPair(m, p, (GetPair(m, p) + 1) % 65536), 1)
DecRR(m, p) == Tick(SetPair(m, p, (GetPair(m, p) - 1) % 65536), 1)

\* ADD HL,rr: 0x09 0x19 0x29 0x39
AddHL(m, p) ==
    LET hl     == HL(m)
        rr     == GetPair(m, p)
        result == hl + rr
        f1 == Or(Or(And(m.cpu.f, \H80),
                    Flag(And(hl, \HFFF) + And(rr, \HFFF) > \HFFF, \H20)),
                 Flag(result > \HFFFF, \H10))
    IN  Tick(SetHL(SetF(m, f1), result), 1)

\* condition of JR/JP/CALL/RET cc: 0 NZ, 1 Z, 2 NC, 3 C
Cond(m, cc) ==
    CASE cc = 0 -> And(m.cpu.f, \H80) = 0
      [] cc = 1 -> And(m.cpu.f, \H80) # 0
      [] cc = 2 -> And(m.cpu.f, \H10) = 0
      [] OTHER  -> And(m.cpu.f, \H10) # 0

\* JR n (taken = TRUE) and JR cc,n
Jr(m, taken) ==
    Let(Fetch(m), LAMBDA n :
        IF taken
        THEN Tick([n[1] EXCEPT !.cpu.pc = (n[1].cpu.pc + Signed8(n[2])) % 65536], 1)
        ELSE n[1])

Jp(m, taken) ==
    Let(FetchWord(m), LAMBDA w :
        IF taken THEN Tick([w[1] EXCEPT !.cpu.pc = w[2]], 1) ELSE w[1])

Call(m, taken) ==
    Let(FetchWord(m), LAMBDA w :
        IF taken
        THEN Let(Tick(w[1], 1), LAMBDA m1 :
                 [PushWord(m1, m1.cpu.pc) EXCEPT !.cpu.pc = w[2]])
        ELSE w[1])

Ret(m) ==
    Let(PopWord(m), LAMBDA w : Tick([w[1] EXCEPT !.cpu.pc = w[2]], 1))

RetCc(m, cc) ==
    Let(Tick(m, 1), LAMBDA m1 : IF Cond(m1, cc) THEN Ret(m1) ELSE m1)

Rst(m, vec) ==
    Let(Tick(m, 1), LAMBDA m1 :
        [PushWord(m1, m1.cpu.pc) EXCEPT !.cpu.pc = vec])

\* PUSH with its internal delay after the two bytes
PushDelayLast(m, value) == Tick(PushWord(m, value), 1)

Push(m, value) == PushWord(Tick(m, 1), value)

\* POP that stores the popped low byte in F as it is
PopUnmasked(m, p) ==
    Let(PopWord(m), LAMBDA w :
        CASE p = 0 -> [w[1] EXCEPT !.cpu.b = Shr(w[2], 8), !.cpu.c = And(w[2], \HFF)]
          [] p = 1 -> [w[1] EXCEPT !.cpu.d = Shr(w[2], 8), !.cpu.e = And(w[2], \HFF)]
          [] p = 2 -> [w[1] EXCEPT !.cpu.h = Shr(w[2], 8), !.cpu.l = And(w[2], \HFF)]
          [] OTHER -> [w[1] EXCEPT !.cpu.a = Shr(w[2], 8), !.cpu.f = And(w[2], \HFF)])

\* POP BC / DE / HL / AF by pair index 0..3
Pop(m, p) ==
    Let(PopWord(m), LAMBDA w :
        CASE p = 0 -> [w[1] EXCEPT !.cpu.b = Shr(w[2], 8), !.cpu.c = And(w[2], \HFF)]
          [] p = 1 -> [w[1] EXCEPT !.cpu.d = Shr(w[2], 8), !.cpu.e = And(w[2], \HFF)]
          [] p = 2 -> [w[1] EXCEPT !.cpu.h = Shr(w[2], 8), !.cpu.l = And(w[2], \HFF)]
          [] OTHER -> [w[1] EXCEPT !.cpu.a = Shr(w[2], 8), !.cpu.f = And(w[2], \HF0)])

\* the eight ALU operations of _alu and of the immediate opcodes
AluOp(m, alu_op, v) ==
    LET a == m.cpu.a
        c == And(Shr(m.cpu.f, 4), 1)
    IN  CASE alu_op = 0 ->
               LET r == a + v
               IN  [m EXCEPT !.cpu.f = Or(Or(Z(And(r, \HFF)),
                                        Flag(And(a, \HF) + And(v, \HF) > \HF, \H20)),
                                        Flag(r > \HFF, \H10)),
                             !.cpu.a = And(r, \HFF)]
          [] alu_op = 1 ->
               LET r == a + v + c
               IN  [m EXCEPT !.cpu.f = Or(Or(Z(And(r, \HFF)),
                                        Flag(And(a, \HF) + And(v, \HF) + c > \HF, \H20)),
                                        Flag(r > \HFF, \H10)),
                             !.cpu.a = And(r, \HFF)]
          [] alu_op = 2 ->
               LET r == a - v
               IN  [m EXCEPT !.cpu.f = Or(Or(Or(\H40, Z(r % 256)),
                                        Flag(And(a, \HF) < And(v, \HF), \H20)),
                                        Flag(r < 0, \H10)),
                             !.cpu.a = r % 256]
          [] alu_op = 3 ->
               LET r == a - v - c
               IN  [m EXCEPT !.cpu.f = Or(Or(Or(\H40, Z(r % 256)),
                                        Flag(And(a, \HF) < And(v, \HF) + c, \H20)),
                                        Flag(r < 0, \H10)),
                             !.cpu.a = r % 256]
          [] alu_op = 4 ->
               [m EXCEPT !.cpu.a = And(a, v), !.cpu.f = Or(\H20, Z(And(a, v)))]
          [] alu_op = 5 ->
               [m EXCEPT !.cpu.a = Xor(a, v), !.cpu.f = Z(Xor(a, v))]
          [] alu_op = 6 ->
               [m EXCEPT !.cpu.a = Or(a, v), !.cpu.f = Z(Or(a, v))]
          [] OTHER ->
               LET r == a - v
               IN  [m EXCEPT !.cpu.f = Or(Or(Or(\H40, Z(r % 256)),
                                        Flag(And(a, \HF) < And(v, \HF), \H20)),
                                        Flag(r < 0, \H10))]

Alu(m, op) ==
    Let(GetReg(m, And(op, 7)), LAMBDA g : AluOp(g[1], And(Shr(op, 3), 7), g[2]))

AluImm(m, op) ==
    Let(Fetch(m), LAMBDA n : AluOp(n[1], And(Shr(op, 3), 7), n[2]))

LdRR(m, op) ==
    Let(GetReg(m, And(op, 7)), LAMBDA g : SetReg(g[1], And(Shr(op, 3), 7), g[2]))

Halt(m) ==
    LET pending == And(And(m.mmu.ie, m.mmu.io[15]), \H1F)
    IN  IF m.cpu.ime THEN [m EXCEPT !.cpu.halted = TRUE]
        ELSE IF pending # 0 THEN [m EXCEPT !.cpu.halt_bug = TRUE]
        ELSE [m EXCEPT !.cpu.halted = TRUE]

\* DAA whose low correction looks at the low nibble only, never at H
DaaIgnoresH(m) ==
    LET a0 == m.cpu.a
        f  == m.cpu.f
        n  == And(f, \H40) # 0
        lo == ~n /\ And(a0, \HF) > 9
        hi == And(f, \H10) # 0 \/ (~n /\ a0 > \H99)
        correction == Or(Flag(lo, \H06), Flag(hi, \H60))
        a  == IF n THEN (a0 - correction) % 256 ELSE And(a0 + correction, \HFF)
    IN  [m EXCEPT !.cpu.a = a,
                  !.cpu.f = Or(Or(And(f, \H40), Z(a)), Flag(hi, \H10))]

Daa(m) ==
    LET a0 == m.cpu.a
        f  == m.cpu.f
        n  == And(f, \H40) # 0
        lo == And(f, \H20) # 0 \/ (~n /\ And(a0, \HF) > 9)
        hi == And(f, \H10) # 0 \/ (~n /\ a0 > \H99)
        correction == Or(Flag(lo, \H06), Flag(hi, \H60))
        a  == IF n THEN (a0 - correction) % 256 ELSE And(a0 + correction, \HFF)
    IN  [m EXCEPT !.cpu.a = a,
                  !.cpu.f = Or(Or(And(f, \H40), Z(a)), Flag(hi, \H10))]

\* ADD SP,n (0xE8) and LD HL,SP+n (0xF8): the flags both compute
SpFlags(sp, n) ==
    Or(Flag(And(sp, \HF) + And(n, \HF) > \HF, \H20),
       Flag(And(sp, \HFF) + n > \HFF, \H10))

\* the rotate/shift group of _cb (cb_op 0..7): <<new value, new F>>
CbRot(cb_op, v, f) ==
    CASE cb_op = 0 ->
           LET c == Shr(v, 7)  r == And(Or(Shl(v, 1), c), \HFF)
           IN  <<r, Or(Shl(c, 4), Z(r))>>
      [] cb_op = 1 ->
           LET c == And(v, 1)  r == Or(Shr(v, 1), Shl(c, 7))
           IN  <<r, Or(Shl(c, 4), Z(r))>>
      [] cb_op = 2 ->
           LET c == Shr(v, 7)  r == And(Or(Shl(v, 1), And(Shr(f, 4), 1)), \HFF)
           IN  <<r, Or(Shl(c, 4), Z(r))>>
      [] cb_op = 3 ->
           LET c == And(v, 1)  r == Or(Shr(v, 1), And(Shl(f, 3), \H80))
           IN  <<r, Or(Shl(c, 4), Z(r))>>
      [] cb_op = 4 ->
           LET c == Shr(v, 7)  r == And(Shl(v, 1), \HFF)
           IN  <<r, Or(Shl(c, 4), Z(r))>>
      [] cb_op = 5 ->
           LET c == And(v, 1)  r == Or(Shr(v, 1), And(v, \H80))
           IN  <<r, Or(Shl(c, 4), Z(r))>>
      [] cb_op = 6 ->
           LET r == Or(Shl(And(v, \HF), 4), Shr(v, 4))
           IN  <<r, Z(r)>>
      [] OTHER ->
           LET c == And(v, 1)  r == Shr(v, 1)
           IN  <<r, Or(Shl(c, 4), Z(r))>>

\* the tail of _cb once the operand v has been read: m is the machine after
\* the read
CbApply(m, reg, cb_op, v) ==
    IF cb_op < 8
    THEN Let(CbRot(cb_op, v, m.cpu.f), LAMBDA r :
             SetReg(SetF(m, r[2]), reg, r[1]))
    ELSE IF cb_op < 16
    THEN SetF(m, Or(Or(And(m.cpu.f, \H10), \H20),
                    Flag(And(v, Shl(1, cb_op - 8)) = 0, \H80)))
    ELSE IF cb_op < 24
    THEN SetReg(m, reg, AndNot8(v, Shl(1, cb_op - 16)))
    ELSE SetReg(m, reg, Or(v, Shl(1, cb_op - 24)))

Cb(m) ==
    Let(Fetch(m), LAMBDA o :
    Let(GetReg(o[1], And(o[2], 7)), LAMBDA g :
        CbApply(g[1], And(o[2], 7), Shr(o[2], 3), g[2])))

IllegalOpcodes ==
    {\HD3, \HDB, \HDD, \HE3, \HE4, \HEB, \HEC, \HED, \HF4, \HFC, \HFD}

\* _execute and _execute_cx_fx
Execute(m, op) ==
    LET r3 == And(Shr(op, 3), 7)     \* register index in bits 5-3
        cc == And(Shr(op, 3), 3)     \* condition in bits 4-3
        pp == And(Shr(op, 4), 3)     \* register pair in bits 5-4
        a  == m.cpu.a
        f  == m.cpu.f
    IN  CASE op = \H00 -> m
          [] op \in {\H01, \H11, \H21, \H31} -> LdRRNN(m, pp)
          [] op = \H02 -> Write(m, BC(m), a)
          [] op = \H12 -> Write(m, DE(m), a)
          [] op = \H22 -> SetHL(Write(m, HL(m), a), And(HL(m) + 1, \HFFFF))
          [] op = \H32 -> SetHL(Write(m, HL(m), a), (HL(m) - 1) % 65536)
          [] op \in {\H03, \H13, \H23, \H33} -> IncRR(m, pp)
          [] op \in {\H0B, \H1B, \H2B, \H3B} -> DecRR(m, pp)
          [] op < \H40 /\ And(op, 7) = 4 -> IncR(m, r3)
          [] op < \H40 /\ And(op, 7) = 5 -> DecR(m, r3)
          [] op < \H40 /\ And(op, 7) = 6 -> LdRN(m, r3)
          [] op = \H07 ->
               LET c == Shr(a, 7)
               IN  [m EXCEPT !.cpu.a = And(Or(Shl(a, 1), c), \HFF),
                             !.cpu.f = Shl(c, 4)]
          [] op = \H0F ->
               LET c == And(a, 1)
               IN  [m EXCEPT !.cpu.a = Or(Shr(a, 1), Shl(c, 7)),
                             !.cpu.f = Shl(c, 4)]
          [] op = \H17 ->
               LET c == Shr(a, 7)
               IN  [m EXCEPT !.cpu.a = And(Or(Shl(a, 1), And(Shr(f, 4), 1)), \HFF),
                             !.cpu.f = Shl(c, 4)]
          [] op = \H1F ->
               LET c == And(a, 1)
               IN  [m EXCEPT !.cpu.a = Or(Shr(a, 1), And(Shl(f, 3), \H80)),
                             !.cpu.f = Shl(c, 4)]
          [] op = \H08 ->
               Let(FetchWord(m), LAMBDA w :
               Let(Write(w[1], w[2], And(w[1].cpu.sp, \HFF)), LAMBDA m1 :
                   Write(m1, And(w[2] + 1, \HFFFF), Shr(m1.cpu.sp, 8))))
          [] op = \H10 -> Fetch(m)[1]
          [] op = \H18 -> Jr(m, TRUE)
          [] op \in {\H20, \H28, \H30, \H38} -> Jr(m, Cond(m, cc))
          [] op \in {\H09, \H19, \H29, \H39} -> AddHL(m, pp)
          [] op = \H0A ->
               Let(Read(m, BC(m)), LAMBDA g : [g[1] EXCEPT !.cpu.a = g[2]])
          [] op = \H1A ->
               Let(Read(m, DE(m)), LAMBDA g : [g[1] EXCEPT !.cpu.a = g[2]])
          [] op = \H2A ->
               Let(Read(m, HL(m)), LAMBDA g :
                   SetHL([g[1] EXCEPT !.cpu.a = g[2]], And(HL(m) + 1, \HFFFF)))
          [] op = \H3A ->
               Let(Read(m, HL(m)), LAMBDA g :
                   SetHL([g[1] EXCEPT !.cpu.a = g[2]], (HL(m) - 1) % 65536))
          [] op = \H27 -> Daa(m)
          [] op = \H2F -> [m EXCEPT !.cpu.a = Xor(a, \HFF), !.cpu.f = Or(f, \H60)]
          [] op = \H37 -> SetF(m, Or(And(f, \H80), \H10))
          [] op = \H3F -> SetF(m, Or(And(f, \H80), And(Xor(f, \H10), \H10)))
          [] op = \H76 -> Halt(m)
          [] op >= \H40 /\ op <= \H7F /\ op # \H76 -> LdRR(m, op)
          [] op >= \H80 /\ op <= \HBF -> Alu(m, op)
          [] op \in {\HC0, \HC8, \HD0, \HD8} -> RetCc(m, cc)
          [] op \in {\HC1, \HD1, \HE1, \HF1} -> Pop(m, pp)
          [] op \in {\HC2, \HCA, \HD2, \HDA} -> Jp(m, Cond(m, cc))
          [] op = \HC3 -> Jp(m, TRUE)
          [] op \in {\HC4, \HCC, \HD4, \HDC} -> Call(m, Cond(m, cc))
          [] op = \HCD -> Call(m, TRUE)
          [] op = \HC5 -> Push(m, BC(m))
          [] op = \HD5 -> Push(m, DE(m))
          [] op = \HE5 -> Push(m, HL(m))
          [] op = \HF5 -> Push(m, Or(Shl(a, 8), f))
          [] op >= \HC0 /\ And(op, 7) = 6 -> AluImm(m, op)
          [] op >= \HC0 /\ And(op, 7) = 7 -> Rst(m, And(op, \H38))
          [] op = \HC9 -> Ret(m)
          [] op = \HD9 -> [Ret(m) EXCEPT !.cpu.ime = TRUE]
          [] op = \HCB -> Cb(m)
          [] op = \HE0 ->
               Let(Fetch(m), LAMBDA n : Write(n[1], \HFF00 + n[2], a))
          [] op = \HE2 -> Write(m, \HFF00 + m.cpu.c, a)
          [] op = \HE8 ->
               Let(Fetch(m), LAMBDA n :
                   Tick([n[1] EXCEPT !.cpu.f = SpFlags(n[1].cpu.sp, n[2]),
                                     !.cpu.sp = (@ + Signed8(n[2])) % 65536], 2))
          [] op = \HE9 -> [m EXCEPT !.cpu.pc = HL(m)]
          [] op = \HEA ->
               Let(FetchWord(m), LAMBDA w : Write(w[1], w[2], a))
          [] op = \HF0 ->
               Let(Fetch(m), LAMBDA n :
               Let(Read(n[1], \HFF00 + n[2]), LAMBDA g :
                   [g[1] EXCEPT !.cpu.a = g[2]]))
          [] op = \HF2 ->
               Let(Read(m, \HFF00 + m.cpu.c), LAMBDA g :
                   [g[1] EXCEPT !.cpu.a = g[2]])
          [] op = \HF3 -> [m EXCEPT !.cpu.ime = FALSE, !.cpu.ei_delay = 0]
          [] op = \HF8 ->
               Let(Fetch(m), LAMBDA n :
                   Tick(SetHL(SetF(n[1], SpFlags(n[1].cpu.sp, n[2])),
                              (n[1].cpu.sp + Signed8(n[2])) % 65536), 1))
          [] op = \HF9 -> Tick([m EXCEPT !.cpu.sp = HL(m)], 1)
          [] op = \HFA ->
               Let(FetchWord(m), LAMBDA w :
               Let(Read(w[1], w[2]), LAMBDA g :
                   [g[1] EXCEPT !.cpu.a = g[2]]))
          [] op = \HFB -> [m EXCEPT !.cpu.ei_delay = 1]
          [] OTHER -> m    \* no branch of the source matches: nothing is done

(***************************************************************************)
(* CPU.step                                                                *)
(***************************************************************************)
ObsInit ==
    [kind |-> "none", op |-> 0, irq |-> 0, ime |-> FALSE, woke |-> FALSE,
     tadv |-> 0, padv |-> 0, raised |-> 0]

Pending(m) == And(And(m.mmu.ie, m.mmu.io[15]), \H1F)

\* "EI delay": the first lines of step()
EiDelay(m) ==
    IF m.cpu.ei_delay > 0
    THEN [m EXCEPT !.cpu.ei_delay = @ - 1,
                   !.cpu.ime = IF m.cpu.ei_delay - 1 = 0 THEN TRUE ELSE @]
    ELSE m

\* the last i of "for i in range(5)" instead of the first
HighestBit(pending) == CHOOSE i \in 0 .. 4 :
    /\ And(pending, Shl(1, i)) # 0
    /\ \A j \in 0 .. 4 : j > i => And(pending, Shl(1, j)) = 0

\* lowest set bit of pending, the first i of "for i in range(5)"
LowestBit(pending) == CHOOSE i \in 0 .. 4 :
    /\ And(pending, Shl(1, i)) # 0
    /\ \A j \in 0 .. 4 : j < i => And(pending, Shl(1, j)) = 0

ServiceInterrupt(m) ==
    LET if_reg == m.mmu.io[15]
        i      == LowestBit(Pending(m))
        m1 == [m EXCEPT !.cpu.halted = FALSE, !.cpu.ime = FALSE,
                        !.mmu.io[15] = AndNot8(if_reg, Shl(1, i)),
                        !.obs.kind = "irq", !.obs.irq = i]
    IN  Let(Tick(m1, 2), LAMBDA m2 :
            Tick([PushWord(m2, m2.cpu.pc) EXCEPT !.cpu.pc = \H0040 + Shl(i, 3)], 1))

FetchExecute(m) ==
    Let(Fetch(m), LAMBDA o :
        Execute([o[1] EXCEPT !.obs.kind = "op", !.obs.op = o[2]], o[2]))

\* step() whose halted branch dispatches a pending interrupt whatever IME is
CpuStepWakeServes(m) ==
    LET m0 == EiDelay([m EXCEPT !.cpu.cycles = 0,
                                !.obs = [ObsInit EXCEPT !.ime = m.cpu.ime]])
        pending == Pending(m0)
    IN  IF (m0.cpu.ime \/ m0.cpu.halted) /\ pending # 0 THEN ServiceInterrupt(m0)
        ELSE IF m0.cpu.halted
        THEN Tick([m0 EXCEPT !.obs.kind = "halt"], 1)
        ELSE FetchExecute(m0)

\* step() whose halted branch returns without the "_tick(1)"
CpuStepHaltedIdle(m) ==
    LET m0 == EiDelay([m EXCEPT !.cpu.cycles = 0,
                                !.obs = [ObsInit EXCEPT !.ime = m.cpu.ime]])
        pending == Pending(m0)
    IN  IF m0.cpu.ime /\ pending # 0 THEN ServiceInterrupt(m0)
        ELSE IF m0.cpu.halted
        THEN IF pending # 0
             THEN FetchExecute([m0 EXCEPT !.cpu.halted = FALSE, !.obs.woke = TRUE])
             ELSE [m0 EXCEPT !.obs.kind = "halt"]
        ELSE FetchExecute(m0)

CpuStep(m) ==
    LET m0 == EiDelay([m EXCEPT !.cpu.cycles = 0,
                                !.obs = [ObsInit EXCEPT !.ime = m.cpu.ime]])
        pending == Pending(m0)
    IN  IF m0.cpu.ime /\ pending # 0 THEN ServiceInterrupt(m0)
        ELSE IF m0.cpu.halted
        THEN IF pending # 0
             THEN FetchExecute([m0 EXCEPT !.cpu.halted = FALSE, !.obs.woke = TRUE])
             ELSE Tick([m0 EXCEPT !.obs.kind = "halt"], 1)
        ELSE FetchExecute(m0)

(***************************************************************************)
(* The cartridge images the runs start from.                               *)
(***************************************************************************)
\* LD A,ifv; LDH (0x0F),A; LD A,iev; LDH (0xFF),A; LD A,tima; LDH (0x05),A;
\* LD A,tac; LDH (0x07),A: sets IF, IE, TIMA and TAC, and leaves A = tac
Setup(ifv, iev, tima, tac) ==
    <<\H3E, ifv, \HE0, \H0F, \H3E, iev, \HE0, \HFF,
      \H3E, tima, \HE0, \H05, \H3E, tac, \HE0, \H07>>

IfVals == {\H00, \H01, \H06, \H18}
IeVals == {\H00, \H01, \H04, \H0A, \HFF}
TacVals == {\H00, \H05}
\* INC A, EI, DI, HALT
TailOps == {\H3C, \HFB, \HF3, \H76}

IrqProgs ==
    {Setup(ifv, iev, \HFF, tac) \o <<t1, t2, t3>> :
        ifv \in IfVals, iev \in IeVals, tac \in TacVals,
        t1 \in TailOps, t2 \in TailOps, t3 \in TailOps}

\* LD A,iev; LDH (0xFF),A; EI; LD A,ifv; LDH (0x0F),A; NOP: IF is written
\* while IME is already 1
LateIeVals == {\H0A, \H1E}
LateIfVals == {\H02, \H06, \H18, \H1C}

LateProgs ==
    {<<\H3E, iev, \HE0, \HFF, \HFB, \H3E, ifv, \HE0, \H0F, \H00>> :
        iev \in LateIeVals, ifv \in LateIfVals}

\* nothing, DEC A, XOR A, EI: the states one opcode is tried from
Preambles == {<< >>, <<\H3D>>, <<\HAF>>, <<\HFB>>}
OperandLo == {\H00, \H0F, \H80, \HFF}
OperandHi == {\H00, \HC0, \HFF}

OpProgs ==
    {pre \o <<op, x, y>> :
        pre \in Preambles, op \in Byte \ {\HCB}, x \in OperandLo, y \in OperandHi}
    \cup {pre \o <<\HCB, x>> : pre \in Preambles, x \in Byte}

\* LD BC,nn; PUSH BC; POP AF; then one opcode
StackProgs ==
    {<<\H01, x, y, \HC5, \HF1, op>> :
        x \in OperandLo, y \in OperandHi, op \in {\H00, \H27, \H2F, \H37, \H3F, \HF5}}

Programs == IrqProgs \cup LateProgs \cup OpProgs \cup StackProgs

MaxExtraSteps == 2

(***************************************************************************)
(* APU (apu.pyx).  ch4_timer holds the fraction of a noise clock that has  *)
(* accumulated, counted in units of 1 / NoiseUnit so that every step the   *)
(* source adds to it is a whole number of units.                           *)
(***************************************************************************)
SAMPLE_RATE == 22050
BUFFER_SAMPLES == 512
NoiseUnit == SAMPLE_RATE * 840

\* APU.__init__ before _init_audio; device_id is what _init_audio leaves
ApuInit ==
    [enabled |-> TRUE, master_enable |-> TRUE, device_id |-> 0,
     vol_left |-> 7, vol_right |-> 7,
     pan_left |-> [i \in 0 .. 3 |-> TRUE], pan_right |-> [i \in 0 .. 3 |-> TRUE],
     ch1_enabled |-> FALSE, ch1_dac |-> FALSE, ch1_duty |-> 2, ch1_freq |-> 0,
     ch1_vol |-> 0, ch1_vol_init |-> 0, ch1_env_add |-> FALSE,
     ch1_env_period |-> 0, ch1_length |-> 0, ch1_length_en |-> FALSE,
     ch1_sweep_period |-> 0, ch1_sweep_neg |-> FALSE, ch1_sweep_shift |-> 0,
     ch2_enabled |-> FALSE, ch2_dac |-> FALSE, ch2_duty |-> 2, ch2_freq |-> 0,
     ch2_vol |-> 0, ch2_vol_init |-> 0, ch2_env_add |-> FALSE,
     ch2_env_period |-> 0, ch2_length |-> 0, ch2_length_en |-> FALSE,
     ch3_enabled |-> FALSE, ch3_dac |-> FALSE, ch3_freq |-> 0,
     ch3_vol_code |-> 0, ch3_length |-> 0, ch3_length_en |-> FALSE,
     ch3_wave |-> [i \in 0 .. 31 |-> 0],
     ch4_enabled |-> FALSE, ch4_dac |-> FALSE, ch4_vol |-> 0, ch4_vol_init |-> 0,
     ch4_env_add |-> FALSE, ch4_env_period |-> 0, ch4_length |-> 0,
     ch4_length_en |-> FALSE, ch4_clock_shift |-> 0, ch4_width |-> FALSE,
     ch4_divisor |-> 0, ch4_lfsr |-> \H7FFF, ch4_timer |-> 0,
     frame_seq |-> 0]

\* a clock that feeds bit 0 back, not bit 0 XOR bit 1
LfsrClockNoXor(a) ==
    LET lfsr1 == Or(Shr(a.ch4_lfsr, 1), Shl(And(a.ch4_lfsr, 1), 14))
    IN  [a EXCEPT !.ch4_lfsr =
            IF a.ch4_width
            THEN Or(lfsr1 - And(lfsr1, \H40), Shl(And(a.ch4_lfsr, 1), 6))
            ELSE lfsr1]

\* the body of the while loop of _noise_sample: one clock of the LFSR
LfsrClock(a) ==
    LET xor_bit == Xor(And(a.ch4_lfsr, 1), And(Shr(a.ch4_lfsr, 1), 1))
        lfsr1   == Or(Shr(a.ch4_lfsr, 1), Shl(xor_bit, 14))
    IN  [a EXCEPT !.ch4_lfsr =
            IF a.ch4_width
            THEN Or(lfsr1 - And(lfsr1, \H40), Shl(xor_bit, 6))
            ELSE lfsr1]

\* F applied to the value of x, the value being computed first
After(x, F(_)) == CHOOSE r \in {F(v) : v \in {x}} : TRUE

\* n clocks, one after the other (the first half, then the rest)
RECURSIVE LfsrClocks(_, _)
LfsrClocks(a, n) ==
    IF n = 0 THEN a
    ELSE IF n = 1 THEN LfsrClock(a)
    ELSE After(LfsrClocks(a, n \div 2), LAMBDA h : LfsrClocks(h, n - (n \div 2)))

NoiseDivisors == <<8, 16, 32, 48, 64, 80, 96, 112>>

\* _noise_sample, for what it does to the APU
NoiseSample(a) ==
    IF a.ch4_vol = 0 THEN a
    ELSE LET div  == NoiseDivisors[a.ch4_divisor + 1]
             step == IF a.ch4_clock_shift < 14
                     THEN (262144 * 840) \div (div * (2 ^ a.ch4_clock_shift))
                     ELSE 840
             t    == a.ch4_timer + step
         IN  LfsrClocks([a EXCEPT !.ch4_timer = t % NoiseUnit], t \div NoiseUnit)

\* _clock_lengths
ClockLengths(a) ==
    LET dec(len, en) == IF en /\ len > 0 THEN len - 1 ELSE len
        off(len, en) == en /\ len = 1
    IN  [a EXCEPT
            !.ch1_length = dec(@, a.ch1_length_en),
            !.ch1_enabled = IF off(a.ch1_length, a.ch1_length_en) THEN FALSE ELSE @,
            !.ch2_length = dec(@, a.ch2_length_en),
            !.ch2_enabled = IF off(a.ch2_length, a.ch2_length_en) THEN FALSE ELSE @,
            !.ch3_length = dec(@, a.ch3_length_en),
            !.ch3_enabled = IF off(a.ch3_length, a.ch3_length_en) THEN FALSE ELSE @,
            !.ch4_length = dec(@, a.ch4_length_en),
            !.ch4_enabled = IF off(a.ch4_length, a.ch4_length_en) THEN FALSE ELSE @]

\* _clock_envelopes without the bounds 15 and 0
ClockEnvelopesUnbounded(a) ==
    LET env(vol, period, add) ==
            IF period > 0 THEN (IF add THEN vol + 1 ELSE vol - 1) ELSE vol
    IN  [a EXCEPT
            !.ch1_vol = env(@, a.ch1_env_period, a.ch1_env_add),
            !.ch2_vol = env(@, a.ch2_env_period, a.ch2_env_add),
            !.ch4_vol = env(@, a.ch4_env_period, a.ch4_env_add)]

\* _clock_envelopes
ClockEnvelopes(a) ==
    LET env(vol, period, add) ==
            IF period > 0
            THEN IF add /\ vol < 15 THEN vol + 1
                 ELSE IF ~add /\ vol > 0 THEN vol - 1 ELSE vol
            ELSE vol
    IN  [a EXCEPT
            !.ch1_vol = env(@, a.ch1_env_period, a.ch1_env_add),
            !.ch2_vol = env(@, a.ch2_env_period, a.ch2_env_add),
            !.ch4_vol = env(@, a.ch4_env_period, a.ch4_env_add)]

\* _tick_frame_seq
TickFrameSeq(a) ==
    LET step == a.frame_seq
        a1   == IF step % 2 = 0 THEN ClockLengths(a) ELSE a
        a2   == IF step = 7 THEN ClockEnvelopes(a1) ELSE a1
    IN  [a2 EXCEPT !.frame_seq = And(step + 1, 7)]

RECURSIVE TickFrameSeqs(_, _)
TickFrameSeqs(a, n) == IF n = 0 THEN a ELSE TickFrameSeqs(TickFrameSeq(a), n - 1)

\* the sample loop of _generate_frame_audio, n samples one after the other
\* (the first half, then the rest): of the four channels only the noise
\* channel's sample changes a modelled field
RECURSIVE GenerateSamples(_, _)
GenerateSamples(a, n) ==
    IF n = 0 THEN a
    ELSE IF n = 1 THEN (IF a.ch4_enabled /\ a.ch4_dac THEN NoiseSample(a) ELSE a)
    ELSE After(GenerateSamples(a, n \div 2),
               LAMBDA h : GenerateSamples(h, n - (n \div 2)))

\* _generate_frame_audio
GenerateFrameAudio(a) == TickFrameSeqs(GenerateSamples(a, BUFFER_SAMPLES), 8)

\* end_frame; queue_full: SDL reports more queued audio than max_queued
EndFrame(a, queue_full) ==
    IF a.device_id = 0 \/ ~a.enabled THEN a
    ELSE IF queue_full THEN a
    ELSE GenerateFrameAudio(a)

\* a trigger that reloads the length counter whatever it holds
ReloadLengthAlways(len, max) == max

\* the trigger's 'if self.chN_length == 0: self.chN_length = max'
ReloadLength(len, max) == IF len = 0 THEN max ELSE len

\* a write that no state of NR52 keeps out
WriteAlwaysPasses(a, addr) == FALSE

\* the gate letting the trigger registers through while the APU is off
WriteGatedButTriggers(a, addr) ==
    /\ ~a.master_enable /\ addr # \H26 /\ ~(\H30 <= addr /\ addr <= \H3F)
    /\ addr \notin {\H14, \H19, \H1E, \H23}

\* the gate at the head of write(): with the master enable clear only NR52
\* and the wave RAM are written
WriteGated(a, addr) ==
    ~a.master_enable /\ addr # \H26 /\ ~(\H30 <= addr /\ addr <= \H3F)

\* APU.write
ApuWrite(a, addr0, value) ==
    LET addr == And(addr0, \H3F)
        bit(mask) == And(value, mask) # 0
        lo(freq) == Or(And(freq, \H700), value)
        hi(freq) == Or(And(freq, \HFF), Shl(And(value, 7), 8))
        trig == bit(\H80)
    IN  IF WriteGated(a, addr) THEN a
        ELSE CASE addr = \H10 ->
               [a EXCEPT !.ch1_sweep_period = And(Shr(value, 4), 7),
                         !.ch1_sweep_neg = bit(8),
                         !.ch1_sweep_shift = And(value, 7)]
          [] addr = \H11 ->
               [a EXCEPT !.ch1_duty = And(Shr(value, 6), 3),
                         !.ch1_length = 64 - And(value, \H3F)]
          [] addr = \H12 ->
               [a EXCEPT !.ch1_vol_init = And(Shr(value, 4), \HF),
                         !.ch1_env_add = bit(8),
                         !.ch1_env_period = And(value, 7),
                         !.ch1_dac = bit(\HF8),
                         !.ch1_enabled = IF bit(\HF8) THEN @ ELSE FALSE]
          [] addr = \H13 -> [a EXCEPT !.ch1_freq = lo(@)]
          [] addr = \H14 ->
               [a EXCEPT !.ch1_freq = hi(@),
                         !.ch1_length_en = bit(\H40),
                         !.ch1_enabled = IF trig THEN a.ch1_dac ELSE @,
                         !.ch1_vol = IF trig THEN a.ch1_vol_init ELSE @,
                         !.ch1_length = IF trig THEN ReloadLength(@, 64) ELSE @]
          [] addr = \H16 ->
               [a EXCEPT !.ch2_duty = And(Shr(value, 6), 3),
                         !.ch2_length = 64 - And(value, \H3F)]
          [] addr = \H17 ->
               [a EXCEPT !.ch2_vol_init = And(Shr(value, 4), \HF),
                         !.ch2_env_add = bit(8),
                         !.ch2_env_period = And(value, 7),
                         !.ch2_dac = bit(\HF8),
                         !.ch2_enabled = IF bit(\HF8) THEN @ ELSE FALSE]
          [] addr = \H18 -> [a EXCEPT !.ch2_freq = lo(@)]
          [] addr = \H19 ->
               [a EXCEPT !.ch2_freq = hi(@),
                         !.ch2_length_en = bit(\H40),
                         !.ch2_enabled = IF trig THEN a.ch2_dac ELSE @,
                         !.ch2_vol = IF trig THEN a.ch2_vol_init ELSE @,
                         !.ch2_length = IF trig THEN ReloadLength(@, 64) ELSE @]
          [] addr = \H1A ->
               [a EXCEPT !.ch3_dac = bit(\H80),
                         !.ch3_enabled = IF bit(\H80) THEN @ ELSE FALSE]
          [] addr = \H1B -> [a EXCEPT !.ch3_length = 256 - value]
          [] addr = \H1C -> [a EXCEPT !.ch3_vol_code = And(Shr(value, 5), 3)]
          [] addr = \H1D -> [a EXCEPT !.ch3_freq = lo(@)]
          [] addr = \H1E ->
               [a EXCEPT !.ch3_freq = hi(@),
                         !.ch3_length_en = bit(\H40),
                         !.ch3_enabled = IF trig THEN a.ch3_dac ELSE @,
                         !.ch3_length = IF trig THEN ReloadLength(@, 256) ELSE @]
          [] addr = \H20 -> [a EXCEPT !.ch4_length = 64 - And(value, \H3F)]
          [] addr = \H21 ->
               [a EXCEPT !.ch4_vol_init = And(Shr(value, 4), \HF),
                         !.ch4_env_add = bit(8),
                         !.ch4_env_period = And(value, 7),
                         !.ch4_dac = bit(\HF8),
                         !.ch4_enabled = IF bit(\HF8) THEN @ ELSE FALSE]
          [] addr = \H22 ->
               [a EXCEPT !.ch4_clock_shift = And(Shr(value, 4), \HF),
                         !.ch4_width = bit(8),
                         !.ch4_divisor = And(value, 7)]
          [] addr = \H23 ->
               [a EXCEPT !.ch4_length_en = bit(\H40),
                         !.ch4_enabled = IF trig THEN a.ch4_dac ELSE @,
                         !.ch4_vol = IF trig THEN a.ch4_vol_init ELSE @,
                         !.ch4_lfsr = IF trig THEN \H7FFF ELSE @,
                         !.ch4_length = IF trig THEN ReloadLength(@, 64) ELSE @]
          [] addr = \H24 ->
               [a EXCEPT !.vol_left = And(Shr(value, 4), 7),
                         !.vol_right = And(value, 7)]
          [] addr = \H25 ->
               [a EXCEPT !.pan_left = [i \in 0 .. 3 |-> bit(Shl(\H10, i))],
                         !.pan_right = [i \in 0 .. 3 |-> bit(Shl(1, i))]]
          [] addr = \H26 ->
               LET off == a.master_enable /\ ~bit(\H80)
               IN  [a EXCEPT !.ch1_enabled = IF off THEN FALSE ELSE @,
                             !.ch2_enabled = IF off THEN FALSE ELSE @,
                             !.ch3_enabled = IF off THEN FALSE ELSE @,
                             !.ch4_enabled = IF off THEN FALSE ELSE @,
                             !.master_enable = bit(\H80)]
          [] \H30 <= addr /\ addr <= \H3F ->
               [a EXCEPT !.ch3_wave[(addr - \H30) * 2] = And(Shr(value, 4), \HF),
                         !.ch3_wave[(addr - \H30) * 2 + 1] = And(value, \HF)]
          [] OTHER -> a

(***************************************************************************)
(* State machine                                                           *)
(***************************************************************************)
\* the machine as the operators above thread it
M == [cpu |-> cpu, mmu |-> mmu, timer |-> timer, ppu |-> ppu,
      joypad |-> joypad, obs |-> obs]

Commit(r) ==
    /\ cpu' = r.cpu
    /\ mmu' = r.mmu
    /\ timer' = r.timer
    /\ ppu' = r.ppu
    /\ joypad' = r.joypad
    /\ obs' = r.obs

\* one call of step(): its result and what it is added to the running sums
Step(r) ==
    /\ Commit(r)
    /\ total' = [ret   |-> total.ret + r.cpu.cycles,
                 timer |-> total.timer + r.obs.tadv,
                 ppu   |-> total.ppu + r.obs.padv]
    /\ steps' = steps + 1
    /\ UNCHANGED <<rom, bus, mbc, ctl, now, scan, apu>>

\* no control write yet
CtlInit == [enable |-> -1, low |-> -1, upper |-> -1, mode |-> -1, mode_prev |-> -1]

\* the cartridge the CPU images are loaded as: no bank controller
CartNone == mbc = MbcInit(RomLen) /\ ctl = CtlInit /\ now = 0

\* PPU.__init__: the framebuffer is zero filled; no line rendered yet
ScanInit == [row |-> [x \in 0 .. 159 |-> 0], ly |-> 0, done |-> FALSE]

\* no access yet
NoAccess == [op |-> "none", addr |-> 0, value |-> 0, before |-> 0]
BusInit == [last |-> NoAccess, prev |-> NoAccess]

FrameInit == [running |-> FALSE, count |-> 0, tcycles |-> 0, lines |-> << >>]

\* GameBoy.__init__
Boot ==
    /\ cpu = CpuInit
    /\ apu = ApuInit
    /\ scan = ScanInit
    /\ mmu = MmuInit
    /\ timer = TimerInit
    /\ ppu = PpuInit
    /\ joypad = JoypadInit
    /\ obs = ObsInit
    /\ total = [ret |-> 0, timer |-> 0, ppu |-> 0]
    /\ steps = 0
    /\ frame = FrameInit
    /\ bus = BusInit
    /\ CartNone

\* GameBoy.__init__ with the timer and the cartridge left open
BootOther ==
    /\ cpu = CpuInit
    /\ apu = ApuInit
    /\ scan = ScanInit
    /\ mmu = MmuInit
    /\ ppu = PpuInit
    /\ joypad = JoypadInit
    /\ obs = ObsInit
    /\ total = [ret |-> 0, timer |-> 0, ppu |-> 0]
    /\ steps = 0
    /\ frame = FrameInit
    /\ bus = BusInit
    /\ rom = << >>

\* GameBoy.__init__ followed by load_rom of one of the images
Init == Boot /\ rom \in Programs

\* what the next step() will do, decided after its "EI delay" lines
Entry == EiDelay(M)
WillService == Entry.cpu.ime /\ Pending(Entry) # 0
WillIdle == ~WillService /\ Entry.cpu.halted /\ Pending(Entry) = 0

StepBound == steps < Len(rom) + MaxExtraSteps

\* step() that services an interrupt
StepInterrupt ==
    /\ StepBound
    /\ WillService
    /\ Step(CpuStep(M))
    /\ UNCHANGED frame

\* step() of a halted CPU with nothing pending
StepHalted ==
    /\ StepBound
    /\ WillIdle
    /\ Step(CpuStep(M))
    /\ UNCHANGED frame

\* step() that fetches and executes one opcode
StepExecute ==
    /\ StepBound
    /\ ~WillService
    /\ ~WillIdle
    /\ Step(CpuStep(M))
    /\ UNCHANGED frame

Next == StepInterrupt \/ StepHalted \/ StepExecute

Spec == Init /\ [][Next]_vars

(***************************************************************************)
(* The same machine started from images that program the timer and the    *)
(* OAM DMA register.                                                       *)
(***************************************************************************)
\* LD A,0xFF; LDH (0x06),A; LD A,0x04; LDH (0xFF),A; LD A,0x05; LDH (0x07),A;
\* k NOPs; LD A,0xFF; EI; LDH (0x05),A; five NOPs: TMA = 0xFF, IE = 0x04,
\* TAC = 0x05, then TIMA = 0xFF with IME on, k setting the phase of the timer
Nops(k) == [i \in 1 .. k |-> 0]

TimerIrqProgs ==
    {<<\H3E, \HFF, \HE0, \H06, \H3E, \H04, \HE0, \HFF, \H3E, \H05, \HE0, \H07>>
       \o Nops(k) \o <<\H3E, \HFF, \HFB, \HE0, \H05>> \o Nops(5) : k \in 0 .. 3}

\* LD HL,0x??10; LD (HL),0x5A; LD A,v; LDH (0x46),A; NOP: a byte stored in
\* VRAM, WRAM or OAM, then a DMA from page v
DmaFillPages == {\H80, \HC0, \HFE}
DmaSrcPages == {\H00, \H01, \H80, \HA0, \HC0, \HE0, \HFE, \HFF}

DmaProgs ==
    {<<\H21, \H10, w, \H36, \H5A, \H3E, v, \HE0, \H46, \H00>> :
        w \in DmaFillPages, v \in DmaSrcPages}

\* HALT with nothing enabled
IoProgs == TimerIrqProgs \cup DmaProgs \cup {<<\H76>>}

InitIo == Boot /\ rom \in IoProgs

SpecIo == InitIo /\ [][Next]_vars

(***************************************************************************)
(* The PPU driven directly: PPU.step calls of one machine cycle and writes *)
(* to the PPU registers through MMU.write, in any order.                   *)
(***************************************************************************)
LcdcVals == {\H11, \H91}
LyVals == {\H00, \H99}

InitPpu == Boot /\ rom = << >>

\* PPU.step(4)
PpuTick ==
    /\ Commit(PpuStep([M EXCEPT !.obs = ObsInit], 4))
    /\ UNCHANGED <<rom, total, steps, frame, bus, mbc, ctl, now, scan, apu>>

\* MMU.write(0xFF40, v): LCDC, bit 7 set or clear
WriteLcdc ==
    /\ \E v \in LcdcVals : Commit(MmuWrite([M EXCEPT !.obs = ObsInit], \HFF40, v))
    /\ UNCHANGED <<rom, total, steps, frame, bus, mbc, ctl, now, scan, apu>>

\* MMU.write(0xFF44, v): LY
WriteLy ==
    /\ \E v \in LyVals : Commit(MmuWrite([M EXCEPT !.obs = ObsInit], \HFF44, v))
    /\ UNCHANGED <<rom, total, steps, frame, bus, mbc, ctl, now, scan, apu>>

NextPpu == PpuTick \/ WriteLcdc \/ WriteLy

SpecPpu == InitPpu /\ [][NextPpu]_vars

(***************************************************************************)
(* The PPU alone, LCD on, advanced by PPU.step(4) from the boot state;     *)
(* total.ppu is the number of T-cycles it has been advanced.               *)
(***************************************************************************)
MaxLineTicks == 40000

InitLine == Boot /\ rom = << >>

LineTick ==
    /\ total.ppu < 4 * MaxLineTicks
    /\ \E r \in {PpuStep([M EXCEPT !.obs = ObsInit], 4)} :
          /\ Commit(r)
          /\ total' = [total EXCEPT !.ppu = @ + r.obs.padv]
    /\ UNCHANGED <<rom, steps, frame, bus, mbc, ctl, now, scan, apu>>

NextLine == LineTick

SpecLine == InitLine /\ [][NextLine]_vars

(***************************************************************************)
(* The PPU's STAT interrupt sources: PPU.step(4) and writes of STAT and    *)
(* LYC through MMU.write, in any order, from the start of line 0 (the boot *)
(* state), of line 142 and of line 152 of the first frame, for a little    *)
(* under three lines each: every mode entry and the LY wrap happen.        *)
(***************************************************************************)
MaxStatTicks == 240
StatVals == {\H07, \H0F, \H10, \H20, \H40, \HF8}
LycVals == {0, 144}

\* the PPU at the start of line ly of the first frame, registers as booted
\* (LYC = 0, so STAT bit 2 has been cleared by the first LY change)
LineStart(ly) ==
    [PpuInit EXCEPT !.ly = ly, !.stat = \H81,
                    !.mode = IF ly >= 144 THEN 1 ELSE 2,
                    !.frame_ready = ly >= 144]

StatStarts == {PpuInit, LineStart(142), LineStart(152)}

InitStat ==
    /\ cpu = CpuInit
    /\ mmu = MmuInit
    /\ timer = TimerInit
    /\ ppu \in StatStarts
    /\ joypad = JoypadInit
    /\ obs = ObsInit
    /\ total = [ret |-> 0, timer |-> 0, ppu |-> 0]
    /\ steps = 0
    /\ frame = FrameInit
    /\ bus = BusInit
    /\ CartNone
    /\ scan = ScanInit
    /\ apu = ApuInit
    /\ rom = << >>

\* PPU.step(4)
StatTick ==
    /\ total.ppu < 4 * MaxStatTicks
    /\ \E r \in {PpuStep([M EXCEPT !.obs = ObsInit], 4)} :
          /\ Commit(r)
          /\ total' = [total EXCEPT !.ppu = @ + r.obs.padv]
    /\ bus' = BusInit
    /\ UNCHANGED <<rom, steps, frame, mbc, ctl, now, scan, apu>>

\* MMU.write(0xFF41, v): STAT
WriteStat ==
    /\ \E v \in StatVals :
          /\ Commit(MmuWrite([M EXCEPT !.obs = ObsInit], \HFF41, v))
          /\ bus' = [last |-> [op |-> "write", addr |-> \HFF41, value |-> v,
                            before |-> 0],
                   prev |-> NoAccess]
    /\ UNCHANGED <<rom, total, steps, frame, mbc, ctl, now, scan, apu>>

\* MMU.write(0xFF45, v): LYC
WriteLyc ==
    /\ \E v \in LycVals :
          /\ Commit(MmuWrite([M EXCEPT !.obs = ObsInit], \HFF45, v))
          /\ bus' = [last |-> [op |-> "write", addr |-> \HFF45, value |-> v,
                            before |-> 0],
                   prev |-> NoAccess]
    /\ UNCHANGED <<rom, total, steps, frame, mbc, ctl, now, scan, apu>>

NextStat == StatTick \/ WriteStat \/ WriteLyc

SpecStat == InitStat /\ [][NextStat]_vars

(***************************************************************************)
(* The window line counter: PPU.step(4) through the first frame and two    *)
(* lines of the second, with writes of LCDC (window off / on), WY and WX   *)
(* at the start of lines 0 and 143.  steps counts the scanlines rendered   *)
(* since LY was last 0 whose registers had the window on them.             *)
(***************************************************************************)
MaxWindowTicks == 17784
WindowLcdcVals == {\H91, \HB1}
WyVals == {0, 1}
WxVals == {7, 167}
WindowWriteLines == {0, 143}

InitWindow == Boot /\ rom = << >>

\* the registers put the window on line LY
WindowOnLine ==
    And(ppu.lcdc, \H20) # 0 /\ ppu.wy <= ppu.ly /\ ppu.wx - 7 < 160

\* the step renders a scanline; the step wraps LY
RendersLine == ppu.mode = 3 /\ ppu'.mode = 0 /\ ppu.ly < 144
WrapsLy == ppu.ly = 153 /\ ppu'.ly = 0

\* PPU.step(4)
WindowTick ==
    /\ total.ppu < 4 * MaxWindowTicks
    /\ \E r \in {PpuStep([M EXCEPT !.obs = ObsInit], 4)} :
          /\ Commit(r)
          /\ total' = [total EXCEPT !.ppu = @ + r.obs.padv]
    /\ steps' = IF WrapsLy THEN 0
                ELSE IF RendersLine /\ WindowOnLine THEN steps + 1
                ELSE steps
    /\ UNCHANGED <<rom, frame, bus, mbc, ctl, now, scan, apu>>

AtWindowWrite ==
    ppu.ly \in WindowWriteLines /\ ppu.mode = 2 /\ ppu.cycles = 0

WindowWrite(addr, v) ==
    /\ AtWindowWrite
    /\ Commit(MmuWrite([M EXCEPT !.obs = ObsInit], addr, v))
    /\ UNCHANGED <<rom, total, steps, frame, bus, mbc, ctl, now, scan, apu>>

\* MMU.write(0xFF40, v), MMU.write(0xFF4A, v), MMU.write(0xFF4B, v)
WriteWindowLcdc == \E v \in WindowLcdcVals : WindowWrite(\HFF40, v)
WriteWy == \E v \in WyVals : WindowWrite(\HFF4A, v)
WriteWx == \E v \in WxVals : WindowWrite(\HFF4B, v)

NextWindow == WindowTick \/ WriteWindowLcdc \/ WriteWy \/ WriteWx

SpecWindow == InitWindow /\ [][NextWindow]_vars

(***************************************************************************)
(* The timer alone: Timer.step(cycles) and writes of TMA, from a state in  *)
(* which TAC, TIMA and TMA have been set; total.timer is the number of     *)
(* T-cycles the timer has been advanced.                                   *)
(***************************************************************************)
MaxTimerCycles == 2400
TimerTacVals == {3, 4, 5, 6, 7}
TimaVals == {\HFE}
TmaVals == {\H00, \HFD}
TickVals == {4, 36}

InitTimer ==
    /\ BootOther
    /\ CartNone
    /\ \E a \in TimerTacVals, b \in TimaVals, c \in TmaVals :
          timer = [TimerInit EXCEPT !.tac = a, !.tima = b, !.tma = c]

\* Timer.step(c)
TimerTick ==
    /\ \E c \in TickVals :
          /\ total.timer + c <= MaxTimerCycles
          /\ \E r \in {TimerStep([M EXCEPT !.obs = ObsInit], c)} :
                /\ Commit(r)
                /\ total' = [total EXCEPT !.timer = @ + r.obs.tadv]
    /\ UNCHANGED <<rom, steps, frame, bus, mbc, ctl, now, scan, apu>>

\* MMU.write(0xFF06, v): TMA
WriteTma ==
    /\ \E v \in TmaVals : Commit(MmuWrite([M EXCEPT !.obs = ObsInit], \HFF06, v))
    /\ UNCHANGED <<rom, total, steps, frame, bus, mbc, ctl, now, scan, apu>>

NextTimer == TimerTick \/ WriteTma

SpecTimer == InitTimer /\ [][NextTimer]_vars

(***************************************************************************)
(* The bus: MMU.write, MMU.read and the CPU's _read (which ticks the timer *)
(* and the PPU 4 T-cycles before it reads) on I/O addresses, from a state  *)
(* with any value in the timer's counter.                                 *)
(***************************************************************************)
MaxBusCycles == 16
DivVals == {\H0000, \H00FC, \H1234, \HFFFC}
BusAddrs == {\HFF03, \HFF04, \HFF4D}
BusVals == {\H00, \H5A, \HFF}

InitBus ==
    /\ BootOther
    /\ CartNone
    /\ \E d \in DivVals : timer = [TimerInit EXCEPT !.div = d]

Access(op, addr, value, before) ==
    [op |-> op, addr |-> addr, value |-> value, before |-> before]

\* MMU.write(a, v)
BusWrite ==
    /\ \E a \in BusAddrs, v \in BusVals :
          /\ Commit(MmuWrite([M EXCEPT !.obs = ObsInit], a, v))
          /\ bus' = [last |-> Access("write", a, v, MmuRead(M, a)),
                     prev |-> bus.last]
    /\ UNCHANGED <<rom, total, steps, frame, mbc, ctl, now, scan, apu>>

\* MMU.read(a)
BusRead ==
    /\ \E a \in BusAddrs :
          bus' = [last |-> Access("read", a, MmuRead(M, a), MmuRead(M, a)),
                  prev |-> bus.last]
    /\ UNCHANGED <<cpu, mmu, timer, ppu, joypad, obs, rom, total, steps, frame,
                   mbc, ctl, now, scan, apu>>

\* CPU._read(a)
BusCpuRead ==
    /\ total.timer < MaxBusCycles
    /\ \E a \in BusAddrs :
        \E r \in {Read([M EXCEPT !.obs = ObsInit], a)} :
          /\ Commit(r[1])
          /\ total' = [total EXCEPT !.timer = @ + r[1].obs.tadv,
                                    !.ppu = @ + r[1].obs.padv]
          /\ bus' = [last |-> Access("cpu_read", a, r[2], MmuRead(M, a)),
                     prev |-> bus.last]
    /\ UNCHANGED <<rom, steps, frame, mbc, ctl, now, scan, apu>>

NextBus == BusWrite \/ BusRead \/ BusCpuRead

SpecBus == InitBus /\ [][NextBus]_vars

(***************************************************************************)
(* The CPU's memory accesses one at a time: _fetch at a PC a jump has left *)
(* in the I/O page, _read and _write of I/O addresses, from a state with   *)
(* any value in the timer's counter.                                       *)
(***************************************************************************)
AccessAddrs == {\HFF04, \HFF44}

\* CPU._fetch() with PC = a
CpuFetch ==
    /\ total.timer < MaxBusCycles
    /\ \E a \in AccessAddrs :
        \E r \in {Fetch([M EXCEPT !.obs = ObsInit, !.cpu.pc = a])} :
          /\ Commit(r[1])
          /\ total' = [total EXCEPT !.timer = @ + r[1].obs.tadv,
                                    !.ppu = @ + r[1].obs.padv]
          /\ bus' = [last |-> Access("cpu_fetch", a, r[2], MmuRead(M, a)),
                     prev |-> NoAccess]
    /\ UNCHANGED <<rom, steps, frame, mbc, ctl, now, scan, apu>>

\* CPU._read(a)
CpuRead ==
    /\ total.timer < MaxBusCycles
    /\ \E a \in AccessAddrs :
        \E r \in {Read([M EXCEPT !.obs = ObsInit], a)} :
          /\ Commit(r[1])
          /\ total' = [total EXCEPT !.timer = @ + r[1].obs.tadv,
                                    !.ppu = @ + r[1].obs.padv]
          /\ bus' = [last |-> Access("cpu_read", a, r[2], MmuRead(M, a)),
                     prev |-> NoAccess]
    /\ UNCHANGED <<rom, steps, frame, mbc, ctl, now, scan, apu>>

\* CPU._write(a, v)
CpuWrite ==
    /\ total.timer < MaxBusCycles
    /\ \E a \in AccessAddrs, v \in BusVals :
        \E r \in {Write([M EXCEPT !.obs = ObsInit], a, v)} :
          /\ Commit(r)
          /\ total' = [total EXCEPT !.timer = @ + r.obs.tadv,
                                    !.ppu = @ + r.obs.padv]
          /\ bus' = [last |-> Access("cpu_write", a, v, MmuRead(M, a)),
                     prev |-> NoAccess]
    /\ UNCHANGED <<rom, steps, frame, mbc, ctl, now, scan, apu>>

NextAccess == CpuFetch \/ CpuRead \/ CpuWrite

SpecAccess == InitBus /\ [][NextAccess]_vars

(***************************************************************************)
(* An MBC1 cartridge: control writes and ROM reads, which MMU.write and    *)
(* MMU.read pass on for every address below 0x8000.                        *)
(***************************************************************************)
RomLens == {\H8000, \H100000, \H200000}
CtlAddrs == {\H1FFF, \H2000, \H3FFF, \H4000, \H5FFF, \H6000, \H7FFF}
CtlVals == {\H00, \H01, \H20, \H62, \HFF}
ReadAddrs == {\H0000, \H3FFF, \H4000, \H7FFF}

InitMbc1 ==
    /\ BootOther
    /\ timer = TimerInit
    /\ ctl = CtlInit
    /\ now = 0
    /\ \E n \in RomLens : mbc = Mbc1Init(n)

\* the range of 0x0000..0x7FFF an address lies in
CtlRange(addr) ==
    IF addr < \H2000 THEN "enable"
    ELSE IF addr < \H4000 THEN "low"
    ELSE IF addr < \H6000 THEN "upper" ELSE "mode"

\* MMU.write(a, v) with a < 0x8000: mbc.write_control(a, v); ctl keeps the
\* history of these writes, and the history of reads starts again
Mbc1Write ==
    /\ \E a \in CtlAddrs, v \in CtlVals :
          /\ mbc' = Mbc1WriteControl(mbc, a, v)
          /\ ctl' = [ctl EXCEPT ![CtlRange(a)] = v]
    /\ bus' = BusInit
    /\ UNCHANGED <<cpu, mmu, timer, ppu, joypad, obs, rom, total, steps, frame,
                   now, scan, apu>>

\* MMU.read(a) with a < 0x8000: mbc.read_rom(a)
Mbc1Read ==
    /\ \E a \in ReadAddrs :
          bus' = [last |-> Access("read", a, Mbc1ReadRom(mbc, a), Mbc1ReadRom(mbc, a)),
                  prev |-> bus.last]
    /\ UNCHANGED <<cpu, mmu, timer, ppu, joypad, obs, rom, total, steps, frame,
                   mbc, ctl, now, scan, apu>>

NextMbc1 == Mbc1Write \/ Mbc1Read

SpecMbc1 == InitMbc1 /\ [][NextMbc1]_vars

(***************************************************************************)
(* Cartridge RAM and the MBC3 clock (mmu.pyx): MBC1, MBC3 and MBC5 with    *)
(* 32 KiB of RAM.  ram holds the bytes by offset, an offset it does not    *)
(* hold reads 0 (bytearray zero fill).                                     *)
(***************************************************************************)
CartRamLen == \H8000
RtcRegs == \H08 .. \H0C

\* MBC.__init__ / MBC1.__init__ / MBC3.__init__ / MBC5.__init__ at time t
CartInit(kind, t) ==
    [kind |-> kind, ram_len |-> CartRamLen, ram |-> EmptyRam,
     rtc_select |-> 0, rtc_latched |-> FALSE, rtc_latch_value |-> 0,
     rtc |-> [r \in RtcRegs |-> 0], rtc_latched_data |-> [r \in RtcRegs |-> 0],
     rtc_start_time |-> t] @@ Mbc1Init(RomLen)

\* MBC3._update_rtc at time t
UpdateRtc(c, t) ==
    IF And(c.rtc[\H0C], \H40) # 0 THEN c
    ELSE LET elapsed == t - c.rtc_start_time
             days    == elapsed \div 86400
             dh      == Or(And(c.rtc[\H0C], \HFE), And(Shr(days, 8), 1))
         IN  [c EXCEPT !.rtc =
                 (\H08 :> (elapsed % 60)) @@
                 (\H09 :> ((elapsed \div 60) % 60)) @@
                 (\H0A :> ((elapsed \div 3600) % 24)) @@
                 (\H0B :> And(days, \HFF)) @@
                 (\H0C :> (IF days > 511 THEN Or(dh, \H80) ELSE dh))]

\* the RAM offset of an address: MBC1 banks only in mode 1
CartRamOffset(c, addr) ==
    (IF c.kind = "MBC1" /\ c.mode # 1 THEN 0 ELSE c.ram_bank) * \H2000
        + (addr - \HA000)

\* read_ram of MBC1, MBC3 and MBC (MBC5) that answers while RAM is disabled
CartReadRamOpen(c, addr, t) ==
    IF c.kind = "MBC3" /\ c.rtc_select \in RtcRegs
    THEN IF c.rtc_latched
         THEN <<c, c.rtc_latched_data[c.rtc_select]>>
         ELSE <<UpdateRtc(c, t), UpdateRtc(c, t).rtc[c.rtc_select]>>
    ELSE IF CartRamOffset(c, addr) < c.ram_len
         THEN <<c, RamGet(c.ram, CartRamOffset(c, addr))>>
         ELSE <<c, \HFF>>

\* read_ram of MBC1, MBC3 and MBC (MBC5): the controller after it, the byte
CartReadRam(c, addr, t) ==
    IF ~c.ram_enabled THEN <<c, \HFF>>
    ELSE IF c.kind = "MBC3" /\ c.rtc_select \in RtcRegs
    THEN IF c.rtc_latched
         THEN <<c, c.rtc_latched_data[c.rtc_select]>>
         ELSE <<UpdateRtc(c, t), UpdateRtc(c, t).rtc[c.rtc_select]>>
    ELSE IF CartRamOffset(c, addr) < c.ram_len
         THEN <<c, RamGet(c.ram, CartRamOffset(c, addr))>>
         ELSE <<c, \HFF>>

\* write_ram of MBC1, MBC3 and MBC (MBC5)
CartWriteRam(c, addr, value, t) ==
    IF ~c.ram_enabled THEN c
    ELSE IF c.kind = "MBC3" /\ c.rtc_select \in RtcRegs
    THEN [c EXCEPT !.rtc[c.rtc_select] = value,
                   !.rtc_start_time =
                       IF c.rtc_select = \H0C /\ And(value, \H40) = 0 THEN t ELSE @]
    ELSE IF CartRamOffset(c, addr) < c.ram_len
         THEN [c EXCEPT !.ram = RamSet(@, CartRamOffset(c, addr), value)]
         ELSE c

\* MBC3.write_control at time t
Mbc3WriteControl(c, addr, value, t) ==
    IF addr < \H2000 THEN [c EXCEPT !.ram_enabled = (And(value, \H0F) = \H0A)]
    ELSE IF addr < \H4000
    THEN [c EXCEPT !.rom_bank = IF And(value, \H7F) = 0 THEN 1 ELSE And(value, \H7F)]
    ELSE IF addr < \H6000
    THEN IF value <= 3 THEN [c EXCEPT !.ram_bank = value, !.rtc_select = 0]
         ELSE IF value \in RtcRegs THEN [c EXCEPT !.rtc_select = value]
         ELSE c
    ELSE LET c1 == IF c.rtc_latch_value = 0 /\ value = 1
                   THEN [UpdateRtc(c, t) EXCEPT
                            !.rtc_latched_data = UpdateRtc(c, t).rtc,
                            !.rtc_latched = TRUE]
                   ELSE c
             c2 == IF value = 0 THEN [c1 EXCEPT !.rtc_latched = FALSE] ELSE c1
         IN  [c2 EXCEPT !.rtc_latch_value = value]

\* MBC5.write_control
Mbc5WriteControl(c, addr, value) ==
    IF addr < \H2000 THEN [c EXCEPT !.ram_enabled = (And(value, \H0F) = \H0A)]
    ELSE IF addr < \H3000 THEN [c EXCEPT !.rom_bank_low = value]
    ELSE IF addr < \H4000 THEN [c EXCEPT !.rom_bank_high = And(value, 1)]
    ELSE IF addr < \H6000 THEN [c EXCEPT !.ram_bank = And(value, \H0F)]
    ELSE c

CartWriteControl(c, addr, value, t) ==
    CASE c.kind = "MBC1" -> Mbc1WriteControl(c, addr, value)
      [] c.kind = "MBC3" -> Mbc3WriteControl(c, addr, value, t)
      [] OTHER -> Mbc5WriteControl(c, addr, value)

CartKinds == {"MBC1", "MBC3", "MBC5"}
\* <<address, value>> of the control writes: RAM enable (low nibble 0xA or
\* not), RAM bank 0 / 1, MBC1 mode 1
CartCtlWrites ==
    {<<\H0000, \H0A>>, <<\H1FFF, \H1A>>, <<\H0000, \H00>>, <<\H1FFF, \HA0>>,
     <<\H0000, \H0B>>, <<\H4000, \H00>>, <<\H4000, \H01>>, <<\H6000, \H01>>}
CartRamAddrs == {\HA000, \HBFFF}

InitCart ==
    /\ BootOther
    /\ timer = TimerInit
    /\ ctl = CtlInit
    /\ now = 0
    /\ \E k \in CartKinds : mbc = CartInit(k, 0)

\* MMU.write(a, v) with a < 0x8000: mbc.write_control(a, v)
CartControl ==
    /\ \E w \in CartCtlWrites :
          /\ mbc' = CartWriteControl(mbc, w[1], w[2], now)
          /\ ctl' = [ctl EXCEPT ![CtlRange(w[1])] = w[2]]
    /\ bus' = BusInit
    /\ UNCHANGED <<cpu, mmu, timer, ppu, joypad, obs, rom, total, steps, frame,
                   now, scan, apu>>

\* MMU.write(a, 0x5A) with a in 0xA000..0xBFFF: mbc.write_ram(a, 0x5A)
CartRamWrite ==
    /\ \E a \in CartRamAddrs :
          /\ mbc' = CartWriteRam(mbc, a, \H5A, now)
          /\ bus' = [last |-> Access("write", a, \H5A, CartReadRam(mbc, a, now)[2]),
                     prev |-> NoAccess]
    /\ UNCHANGED <<cpu, mmu, timer, ppu, joypad, obs, rom, total, steps, frame,
                   ctl, now, scan, apu>>

\* MMU.read(a) with a in 0xA000..0xBFFF: mbc.read_ram(a)
CartRamRead ==
    /\ \E a \in CartRamAddrs :
          /\ mbc' = CartReadRam(mbc, a, now)[1]
          /\ bus' = [last |-> Access("read", a, CartReadRam(mbc, a, now)[2],
                                     CartReadRam(mbc, a, now)[2]),
                     prev |-> NoAccess]
    /\ UNCHANGED <<cpu, mmu, timer, ppu, joypad, obs, rom, total, steps, frame,
                   ctl, now, scan, apu>>

NextCart == CartControl \/ CartRamWrite \/ CartRamRead

SpecCart == InitCart /\ [][NextCart]_vars

(***************************************************************************)
(* An MBC3 cartridge and the host's clock: control writes, reads of the    *)
(* selected register and the passing of time.                              *)
(***************************************************************************)
MaxNow == 5
ClockSteps == {1, 2}
\* RAM enable / disable, RTC seconds / RAM bank 0 selected, latch values
RtcCtlWrites ==
    {<<\H0000, \H0A>>, <<\H0000, \H00>>, <<\H4000, \H08>>, <<\H4000, \H00>>,
     <<\H6000, \H00>>, <<\H6000, \H01>>, <<\H7FFF, \H02>>}

InitRtc ==
    /\ BootOther
    /\ timer = TimerInit
    /\ ctl = CtlInit
    /\ now = 0
    /\ mbc = CartInit("MBC3", 0)

\* MMU.write(a, v) with a < 0x8000: mbc.write_control(a, v)
RtcControl ==
    /\ \E w \in RtcCtlWrites :
          /\ mbc' = Mbc3WriteControl(mbc, w[1], w[2], now)
          /\ ctl' = [ctl EXCEPT ![CtlRange(w[1])] = w[2],
                                !.mode_prev = IF CtlRange(w[1]) = "mode"
                                              THEN ctl.mode ELSE @]
    /\ bus' = BusInit
    /\ UNCHANGED <<cpu, mmu, timer, ppu, joypad, obs, rom, total, steps, frame,
                   now, scan, apu>>

\* MMU.read(0xA000): mbc.read_ram(0xA000)
RtcRead ==
    /\ mbc' = CartReadRam(mbc, \HA000, now)[1]
    /\ bus' = [last |-> Access("read", \HA000, CartReadRam(mbc, \HA000, now)[2],
                               CartReadRam(mbc, \HA000, now)[2]),
               prev |-> NoAccess]
    /\ UNCHANGED <<cpu, mmu, timer, ppu, joypad, obs, rom, total, steps, frame,
                   ctl, now, scan, apu>>

\* the host's clock advances
ClockTick ==
    /\ \E d \in ClockSteps : now + d <= MaxNow /\ now' = now + d
    /\ bus' = BusInit
    /\ UNCHANGED <<cpu, mmu, timer, ppu, joypad, obs, rom, total, steps, frame,
                   mbc, ctl, scan, apu>>

NextRtc == RtcControl \/ RtcRead \/ ClockTick

SpecRtc == InitRtc /\ [][NextRtc]_vars

(***************************************************************************)
(* Sprites (ppu.pyx _render_sprites): a program loads two tiles, selects   *)
(* the object palette, turns the sprites on with the background off, fills *)
(* the first entries of OAM and line 0 is rendered.                        *)
(***************************************************************************)
Oam(m, i) == RamGet(m.mmu.ram, \HFE00 + i)
Vram(m, i) == RamGet(m.mmu.ram, \H8000 + i)
SpriteHeight(m) == IF And(m.ppu.lcdc, \H04) # 0 THEN 16 ELSE 8

\* the search loop: the entries of OAM lying on line ly, in OAM order, the
\* first 10 of them, each as <<sprite_x, sprite_indices>>
RECURSIVE VisibleSprites(_, _, _, _)
VisibleSprites(m, ly, i, found) ==
    IF i >= 40 \/ Len(found) >= 10 THEN found
    ELSE LET base == i * 4
             y    == Oam(m, base) - 16
         IN  VisibleSprites(m, ly, i + 1,
                 IF y <= ly /\ ly < y + SpriteHeight(m)
                 THEN Append(found, <<Oam(m, base + 1) - 8, base>>)
                 ELSE found)

\* the bubble sort: entries j and j + 1 are exchanged when the first has the
\* smaller X (sequences count from 1, the source's arrays from 0)
RECURSIVE SortInner(_, _, _)
SortInner(s, j, last) ==
    IF j > last THEN s
    ELSE SortInner(IF s[j][1] < s[j + 1][1]
                   THEN [s EXCEPT ![j] = s[j + 1], ![j + 1] = s[j]]
                   ELSE s,
                   j + 1, last)

RECURSIVE SortOuter(_, _)
SortOuter(s, i) ==
    IF i >= Len(s) - 1 THEN s
    ELSE SortOuter(SortInner(s, 1, Len(s) - 1 - i), i + 1)

\* _update_palettes: entry c of the palette cached from register p
ObjPalette(p, c) == And(Shr(p, 2 * c), \H03)

\* color_idx of the sprite at OAM offset base on line ly at column screen_x
\* (0 where the sprite does not lie or is transparent)
SpriteColor(m, ly, x, base, screen_x) ==
    LET y     == Oam(m, base) - 16
        attrs == Oam(m, base + 3)
        h     == SpriteHeight(m)
        tile_num == IF h = 16 THEN And(Oam(m, base + 2), \HFE)
                    ELSE Oam(m, base + 2)
        sprite_line == IF And(attrs, \H40) # 0 THEN h - 1 - (ly - y) ELSE ly - y
        tile_addr == tile_num * 16 + sprite_line * 2
        lo    == Vram(m, tile_addr)
        hi    == Vram(m, tile_addr + 1)
        pixel == screen_x - x
        bit   == IF And(attrs, \H20) # 0 THEN pixel ELSE 7 - pixel
    IN  IF pixel < 0 \/ pixel >= 8 THEN 0
        ELSE Or(Shl(And(Shr(hi, bit), 1), 1), And(Shr(lo, bit), 1))

\* the body of the drawing loop for one sprite
DrawSprite(m, ly, row, bg_priority, sp) ==
    LET attrs == Oam(m, sp[2] + 3)
        bg_over_obj == And(attrs, \H80) # 0
        pal   == IF And(attrs, \H10) # 0 THEN m.ppu.obp1 ELSE m.ppu.obp0
    IN  [screen_x \in 0 .. 159 |->
            LET color_idx == SpriteColor(m, ly, sp[1], sp[2], screen_x)
            IN  IF color_idx = 0 THEN row[screen_x]
                ELSE IF bg_over_obj /\ bg_priority[screen_x] # 0 THEN row[screen_x]
                ELSE ObjPalette(pal, color_idx)]

\* the drawing loop: for i in range(sprite_count), in the sorted order
RECURSIVE DrawSprites(_, _, _, _, _, _)
DrawSprites(m, ly, row, bg_priority, s, i) ==
    IF i > Len(s) THEN row
    ELSE DrawSprites(m, ly, DrawSprite(m, ly, row, bg_priority, s[i]),
                     bg_priority, s, i + 1)

RenderSprites(m, ly, row, bg_priority) ==
    DrawSprites(m, ly, row, bg_priority,
                SortOuter(VisibleSprites(m, ly, 0, << >>), 0), 1)

\* tile 1 is colour 1 and tile 3 colour 3 on their first line; OBP0 keeps
\* the four colours apart; LCD and sprites on, background and window off
SpriteSetup ==
    <<<<\H8010, \HFF>>, <<\H8011, \H00>>, <<\H8030, \HFF>>, <<\H8031, \HFF>>,
      <<\HFF48, \HE4>>, <<\HFF40, \H82>>>>

RECURSIVE WriteAll(_, _, _)
WriteAll(m, ws, i) ==
    IF i > Len(ws) THEN m
    ELSE WriteAll(MmuWrite(m, ws[i][1], ws[i][2]), ws, i + 1)

\* the OAM entries written, and the bytes written to them: Y, X, tile
OamEntries == {0, 1}
OamBytes == {<<0, 16>>, <<1, 10>>, <<1, 14>>, <<2, 1>>, <<2, 3>>}

InitSprites == Boot /\ rom = << >>

\* MMU.write of the tiles and of the registers
LoadTiles ==
    /\ ppu.lcdc = PpuInit.lcdc
    /\ Commit(WriteAll(M, SpriteSetup, 1))
    /\ UNCHANGED <<rom, total, steps, frame, bus, mbc, ctl, now, scan, apu>>

\* MMU.write(0xFE00 + 4 * n + k, v)
OamWrite ==
    /\ ppu.lcdc # PpuInit.lcdc
    /\ \E n \in OamEntries, w \in OamBytes :
          Commit(MmuWrite(M, \HFE00 + 4 * n + w[1], w[2]))
    /\ scan' = ScanInit
    /\ UNCHANGED <<rom, total, steps, frame, bus, mbc, ctl, now, apu>>

\* _render_scanline of line 0 with LCDC bits 0 and 5 clear and bit 1 set:
\* the row and the priority buffer are zeroed, then the sprites are drawn
RenderLine ==
    /\ And(ppu.lcdc, \H23) = \H02
    /\ scan' = [row  |-> RenderSprites(M, 0, ScanInit.row, ScanInit.row),
                ly   |-> 0,
                done |-> TRUE]
    /\ UNCHANGED <<cpu, mmu, timer, ppu, joypad, obs, rom, total, steps, frame,
                   bus, mbc, ctl, now, apu>>

NextSprites == LoadTiles \/ OamWrite \/ RenderLine

SpecSprites == InitSprites /\ [][NextSprites]_vars

(***************************************************************************)
(* DAA: images that load A and F through the stack and adjust, and images  *)
(* that add two packed-BCD bytes and adjust.                               *)
(***************************************************************************)
FlagVals == {16 * k : k \in 0 .. 15}
Bcd == {16 * hi + lo : hi \in 0 .. 9, lo \in 0 .. 9}

\* LD BC,nn; PUSH BC; POP AF; DAA
DaaLawProgs == {<<\H01, f, a, \HC5, \HF1, \H27>> : f \in FlagVals, a \in Byte}
\* LD A,x; ADD A,y; DAA
DaaAddProgs == {<<\H3E, x, \HC6, y, \H27>> : x \in Bcd, y \in Bcd}

InitDaa == Boot /\ rom \in DaaLawProgs \cup DaaAddProgs

AfterDaa == obs.kind = "op" /\ obs.op = \H27

\* step() up to and including the DAA
DaaStep ==
    /\ ~AfterDaa
    /\ Step(CpuStep(M))
    /\ UNCHANGED frame

SpecDaa == InitDaa /\ [][DaaStep]_vars

(***************************************************************************)
(* Jumps, calls, returns and the stack: images that load F through the     *)
(* stack and then run one control-flow or stack opcode, and images that    *)
(* point SP at 0xFF05 and push, so that the first byte pushed lands on DIV *)
(* (0xFF04) and resets the timer's counter.                                *)
(***************************************************************************)
JrOps == {\H18, \H20, \H28, \H30, \H38}
JpOps == {\HC3, \HC2, \HCA, \HD2, \HDA}
CallOps == {\HCD, \HC4, \HCC, \HD4, \HDC}
RetOps == {\HC9, \HD9, \HC0, \HC8, \HD0, \HD8}
RstOps == {\HC7, \HCF, \HD7, \HDF, \HE7, \HEF, \HF7, \HFF}
PushOps == {\HC5, \HD5, \HE5, \HF5}
PopOps == {\HC1, \HD1, \HE1, \HF1}
FlowOps ==
    JrOps \cup JpOps \cup {\HE9} \cup CallOps \cup RetOps \cup RstOps
        \cup PushOps \cup PopOps

\* Z and C clear or set
FlowFlags == {\H00, \H10, \H80, \H90}
FlowOperands == {<<\H02, \H01>>, <<\HFE, \HC0>>}

\* LD BC,f; PUSH BC; POP AF; then the opcode and its operand
FlowProgs ==
    {<<\H01, f, \H00, \HC5, \HF1, op, w[1], w[2]>> :
        f \in FlowFlags, op \in FlowOps, w \in FlowOperands}

\* LD SP,0xFF05; PUSH rr
PushOnDivProgs == {<<\H31, \H05, \HFF, op>> : op \in PushOps}

InitFlow == Boot /\ rom \in FlowProgs \cup PushOnDivProgs

\* the opcodes of the image, one step() each
FlowLength == IF rom \in PushOnDivProgs THEN 2 ELSE 4

FlowStep ==
    /\ steps < FlowLength
    /\ Step(CpuStep(M))
    /\ UNCHANGED frame

NextFlow == FlowStep

SpecFlow == InitFlow /\ [][NextFlow]_vars

(***************************************************************************)
(* The APU over frames: register writes through MMU.write and the call of  *)
(* end_frame that closes run_frame, with and without an audio device.      *)
(***************************************************************************)
MaxApuFrames == 2
\* what SDL_OpenAudioDevice returned to _init_audio: 0 (no device) or an id
DeviceIds == {0, 2}
\* NR11 (length 2), NR12 (volume 15, falling, period 1), NR14 (trigger with
\* the length enabled), NR42 (volume 1, rising, period 1), NR44 (trigger)
FrameWrites ==
    {<<\H11, \H3E>>, <<\H12, \HF1>>, <<\H14, \HC0>>, <<\H21, \H19>>, <<\H23, \H80>>}

InitApu ==
    /\ cpu = CpuInit
    /\ mmu = MmuInit
    /\ timer = TimerInit
    /\ ppu = PpuInit
    /\ joypad = JoypadInit
    /\ obs = ObsInit
    /\ total = [ret |-> 0, timer |-> 0, ppu |-> 0]
    /\ steps = 0
    /\ frame = FrameInit
    /\ bus = BusInit
    /\ CartNone
    /\ scan = ScanInit
    /\ rom = << >>
    /\ \E d \in DeviceIds : apu = [ApuInit EXCEPT !.device_id = d]

\* MMU.write(0xFF00 + reg, v) with 0x10 <= reg <= 0x3F: apu.write(reg, v),
\* then io[reg] = v
ApuRegWrite(w) ==
    /\ Commit(MmuWrite([M EXCEPT !.obs = ObsInit], \HFF00 + w[1], w[2]))
    /\ apu' = ApuWrite(apu, w[1], w[2])
    /\ bus' = [last |-> Access("write", \HFF00 + w[1], w[2], 0), prev |-> NoAccess]

FrameWrite ==
    /\ frame.count = 0
    /\ \E w \in FrameWrites : ApuRegWrite(w)
    /\ UNCHANGED <<rom, total, steps, frame, mbc, ctl, now, scan>>

\* the end of run_frame: self.apu.end_frame()
EndFrameCall ==
    /\ frame.count < MaxApuFrames
    /\ \E queue_full \in BOOLEAN : apu' = EndFrame(apu, queue_full)
    /\ frame' = [frame EXCEPT !.count = @ + 1]
    /\ bus' = BusInit
    /\ UNCHANGED <<cpu, mmu, timer, ppu, joypad, obs, rom, total, steps, mbc, ctl,
                   now, scan>>

NextApuFrame == FrameWrite \/ EndFrameCall

SpecApuFrame == InitApu /\ [][NextApuFrame]_vars

(***************************************************************************)
(* The APU's registers: calls of APU.write in any order, on the four       *)
(* channels, NR52 and the wave RAM.                                        *)
(***************************************************************************)
\* NR12, NR22, NR30, NR42 (DAC on); NR14, NR24, NR34, NR44 (trigger);
\* NR52 (power off, power on); wave RAM
ApuWrites ==
    {<<\H12, \HF0>>, <<\H14, \H80>>, <<\H17, \HF0>>, <<\H19, \H80>>,
     <<\H1A, \H80>>, <<\H1E, \H80>>, <<\H21, \HF0>>, <<\H23, \H80>>,
     <<\H26, \H00>>, <<\H26, \H80>>, <<\H30, \H12>>}

\* APU.write(reg, v)
ApuWriteCall ==
    /\ \E w \in ApuWrites :
          /\ apu' = ApuWrite(apu, w[1], w[2])
          /\ bus' = [last |-> Access("write", w[1], w[2], 0), prev |-> NoAccess]
    /\ UNCHANGED <<cpu, mmu, timer, ppu, joypad, obs, rom, total, steps, frame, mbc,
                   ctl, now, scan>>

NextApu == ApuWriteCall

SpecApu == InitApu /\ [][NextApu]_vars

(***************************************************************************)
(* One channel driven at a time, with an audio device: writes of the       *)
(* channel's length, envelope / DAC and NRx4 registers, and the end_frame  *)
(* calls that run the noise channel and the frame sequencer.               *)
(***************************************************************************)
\* the fields of channel n a trigger is about
Channel(a, n) ==
    CASE n = 1 -> [enabled |-> a.ch1_enabled, dac |-> a.ch1_dac,
                   length |-> a.ch1_length, vol |-> a.ch1_vol,
                   vol_init |-> a.ch1_vol_init]
      [] n = 2 -> [enabled |-> a.ch2_enabled, dac |-> a.ch2_dac,
                   length |-> a.ch2_length, vol |-> a.ch2_vol,
                   vol_init |-> a.ch2_vol_init]
      [] n = 3 -> [enabled |-> a.ch3_enabled, dac |-> a.ch3_dac,
                   length |-> a.ch3_length, vol |-> 0, vol_init |-> 0]
      [] n = 4 -> [enabled |-> a.ch4_enabled, dac |-> a.ch4_dac,
                   length |-> a.ch4_length, vol |-> a.ch4_vol,
                   vol_init |-> a.ch4_vol_init]

\* NR14, NR24, NR34, NR44 and the length a trigger reloads
TriggerReg == <<\H14, \H19, \H1E, \H23>>
LengthMax == <<64, 64, 256, 64>>


\* the channel a register below NR50 belongs to
ChannelOf(reg) ==
    IF reg <= \H14 THEN 1 ELSE IF reg <= \H19 THEN 2 ELSE IF reg <= \H1E THEN 3 ELSE 4

\* per channel: length 1; DAC on; (channel 1) DAC off; NRx4 with bit 7 set
\* and with bit 7 clear, the length enabled
TriggerWrites ==
    {<<\H11, \H3F>>, <<\H12, \HF0>>, <<\H12, \H00>>, <<\H14, \HC0>>, <<\H14, \H40>>,
     <<\H16, \H3F>>, <<\H17, \HF0>>, <<\H19, \HC0>>, <<\H19, \H40>>,
     <<\H1B, \HFF>>, <<\H1A, \H80>>, <<\H1E, \HC0>>, <<\H1E, \H40>>,
     <<\H20, \H3F>>, <<\H21, \HF0>>, <<\H23, \HC0>>, <<\H23, \H40>>}

InitApuDevice == InitApu /\ apu.device_id # 0

\* APU.write(reg, v), the other channels being as constructed
TriggerWrite ==
    /\ \E w \in TriggerWrites :
          /\ \A m \in (1 .. 4) \ {ChannelOf(w[1])} :
                Channel(apu, m) = Channel(ApuInit, m)
          /\ apu' = ApuWrite(apu, w[1], w[2])
          /\ bus' = [last |-> Access("write", w[1], w[2], 0), prev |-> NoAccess]
    /\ UNCHANGED <<cpu, mmu, timer, ppu, joypad, obs, rom, total, steps, frame, mbc,
                   ctl, now, scan>>

NextTrigger == TriggerWrite \/ EndFrameCall

SpecTrigger == InitApuDevice /\ [][NextTrigger]_vars

(***************************************************************************)
(* The frame sequencer tick by tick: the four channels are set up and      *)
(* triggered by register writes, then the loop at the end of               *)
(* _generate_frame_audio runs pass by pass; steps counts the passes.       *)
(***************************************************************************)
MaxSeqTicks == 24
SeqLengths == {1, 2}
\* NRx2: volume 1 falling, volume 14 rising (period 1 each); period 0
SeqEnvelopes == {\H11, \HE9, \HF0}
\* NRx4: trigger, without and with the length enabled
SeqTriggers == {\H80, \HC0}

SeqConfigs ==
    {<<len, env, trig>> :
        len \in SeqLengths, env \in SeqEnvelopes, trig \in SeqTriggers}

\* NR10: no sweep; period 1, shift 1, adding and subtracting
SeqSweeps == {\H00, \H11, \H19}

\* the writes that give channels 1 and 3 the configuration x and channels 2
\* and 4 the configuration y (channel 3: NR30 turns its DAC on), channel 1
\* with the sweep sw and the frequency code 0x400
SeqSetup(x, y, sw) ==
    <<<<\H10, sw>>,
      <<\H11, 64 - x[1]>>, <<\H12, x[2]>>, <<\H13, \H00>>, <<\H14, x[3] + 4>>,
      <<\H16, 64 - y[1]>>, <<\H17, y[2]>>, <<\H19, y[3]>>,
      <<\H1A, \H80>>, <<\H1B, 256 - x[1]>>, <<\H1E, x[3]>>,
      <<\H20, 64 - y[1]>>, <<\H21, y[2]>>, <<\H23, y[3]>>>>

\* the MMU's part of the writes is WriteAll; this is the APU's
RECURSIVE ApuWriteAll(_, _, _)
ApuWriteAll(a, ws, i) ==
    IF i > Len(ws) THEN a
    ELSE ApuWriteAll(ApuWrite(a, ws[i][1], ws[i][2]), ws, i + 1)

\* MMU.write(0xFF00 + reg, v) for each write of a setup, before any pass
SeqWrites ==
    /\ steps = 0
    /\ bus = BusInit
    /\ \E x \in SeqConfigs, y \in SeqConfigs, sw \in SeqSweeps :
          LET ws == SeqSetup(x, y, sw)
          IN  /\ Commit(WriteAll([M EXCEPT !.obs = ObsInit],
                                 [i \in 1 .. Len(ws) |->
                                     <<\HFF00 + ws[i][1], ws[i][2]>>], 1))
              /\ apu' = ApuWriteAll(apu, ws, 1)
              /\ bus' = [last |-> Access("write", \HFF00 + ws[Len(ws)][1],
                                        ws[Len(ws)][2], 0),
                         prev |-> NoAccess]
    /\ UNCHANGED <<rom, total, steps, frame, mbc, ctl, now, scan>>

\* one pass of 'for j in range(8): self._tick_frame_seq()'; the pass j = 0
\* comes after the sample loop of the same call
SeqTick ==
    /\ steps < MaxSeqTicks
    /\ apu' = TickFrameSeq(IF apu.frame_seq = 0
                           THEN GenerateSamples(apu, BUFFER_SAMPLES)
                           ELSE apu)
    /\ steps' = steps + 1
    /\ UNCHANGED <<cpu, mmu, timer, ppu, joypad, obs, rom, total, frame, bus, mbc,
                   ctl, now, scan>>

NextSeq == SeqWrites \/ SeqTick

SpecSeq == InitApuDevice /\ [][NextSeq]_vars

(***************************************************************************)
(* The APU's DACs: writes that give a channel a length of 1, turn its DAC  *)
(* on and off and trigger it, one channel at a time, and writes that       *)
(* switch the APU off and on, in any order, with the end_frame calls that  *)
(* tick the frame sequencer.                                               *)
(***************************************************************************)
\* per channel: NRx1 (length 1), NRx2 = 0xF0 / 0x00 (NR30 = 0x80 / 0x00),
\* NRx4 = 0x80 and 0xC0 (trigger, without and with the length enabled)
DacWrites ==
    {<<\H11, \H3F>>, <<\H12, \HF0>>, <<\H12, \H00>>, <<\H14, \H80>>, <<\H14, \HC0>>,
     <<\H16, \H3F>>, <<\H17, \HF0>>, <<\H17, \H00>>, <<\H19, \H80>>, <<\H19, \HC0>>,
     <<\H1B, \HFF>>, <<\H1A, \H80>>, <<\H1A, \H00>>, <<\H1E, \H80>>, <<\H1E, \HC0>>,
     <<\H20, \H3F>>, <<\H21, \HF0>>, <<\H21, \H00>>, <<\H23, \H80>>, <<\H23, \HC0>>}
\* NR52 = 0x00 / 0x80
PowerWrites == {<<\H26, \H00>>, <<\H26, \H80>>}

\* APU.write(reg, v), the other channels being as constructed
DacWrite ==
    /\ \E w \in DacWrites :
          /\ \A m \in (1 .. 4) \ {ChannelOf(w[1])} :
                Channel(apu, m) = Channel(ApuInit, m)
          /\ apu' = ApuWrite(apu, w[1], w[2])
          /\ bus' = [last |-> Access("write", w[1], w[2], 0), prev |-> NoAccess]
    /\ UNCHANGED <<cpu, mmu, timer, ppu, joypad, obs, rom, total, steps, frame, mbc,
                   ctl, now, scan>>

\* APU.write(0x26, v)
PowerWrite ==
    /\ \E w \in PowerWrites :
          /\ apu' = ApuWrite(apu, w[1], w[2])
          /\ bus' = [last |-> Access("write", w[1], w[2], 0), prev |-> NoAccess]
    /\ UNCHANGED <<cpu, mmu, timer, ppu, joypad, obs, rom, total, steps, frame, mbc,
                   ctl, now, scan>>

NextDac == DacWrite \/ PowerWrite \/ EndFrameCall

SpecDac == InitApuDevice /\ [][NextDac]_vars

(***************************************************************************)
(* The noise channel's LFSR: the channel is set up and triggered in 15-bit *)
(* or in 7-bit mode, then the LFSR is clocked; steps counts the clocks     *)
(* since the trigger.                                                      *)
(***************************************************************************)
MaxClocks == 32767
\* NR43: clock shift 0, divisor 8, width 15 bits / 7 bits
WidthVals == {\H00, \H08}

\* APU.write of NR42 (DAC on, volume 15), NR43 and NR44 (trigger)
NoiseSetup ==
    /\ ~apu.ch4_enabled
    /\ \E v \in WidthVals :
          apu' = ApuWrite(ApuWrite(ApuWrite(apu, \H21, \HF0), \H22, v), \H23, \H80)
    /\ UNCHANGED <<cpu, mmu, timer, ppu, joypad, obs, rom, total, steps, frame, bus,
                   mbc, ctl, now, scan>>

\* one pass of the while loop of _noise_sample
NoiseClock ==
    /\ apu.ch4_enabled
    /\ steps < MaxClocks
    /\ apu' = LfsrClock(apu)
    /\ steps' = steps + 1
    /\ UNCHANGED <<cpu, mmu, timer, ppu, joypad, obs, rom, total, frame, bus, mbc,
                   ctl, now, scan>>

NextLfsr == NoiseSetup \/ NoiseClock

SpecLfsr == InitApu /\ [][NextLfsr]_vars

(***************************************************************************)
(* GameBoy.run_frame (gameboy.pyx), called MaxFrames times.                *)
(***************************************************************************)
max_steps == 70224 * 2

MaxFrames == 2

\* HALT (IE = 0: the CPU idles); JR -2; INC (HL), JP 0x0100
FrameProgs == {<<\H76>>, <<\H18, \HFE>>, <<\H34, \HC3, \H00, \H01>>}

\* LD A,0x11; LDH (0x40),A; JP 0x0104: the LCD is switched off for good
LcdOffProgs == {<<\H3E, \H11, \HE0, \H40, \HC3, \H04, \H01>>}

\* run_frame entered without its "ppu.frame_ready = False"
RunFrameCallKeepsFlag ==
    /\ ~frame.running
    /\ frame.count < MaxFrames
    /\ steps' = 0
    /\ frame' = [frame EXCEPT !.running = TRUE, !.tcycles = 0, !.lines = << >>]
    /\ UNCHANGED <<cpu, mmu, timer, ppu, joypad, rom, obs, total, bus, mbc, ctl, now, scan, apu>>

\* run_frame up to its loop: frame_ready cleared, steps = 0
RunFrameCall ==
    /\ ~frame.running
    /\ frame.count < MaxFrames
    /\ ppu' = [ppu EXCEPT !.frame_ready = FALSE]
    /\ steps' = 0
    /\ frame' = [frame EXCEPT !.running = TRUE, !.tcycles = 0, !.lines = << >>]
    /\ UNCHANGED <<cpu, mmu, timer, joypad, rom, obs, total, bus, mbc, ctl, now, scan, apu>>

\* the loop of run_frame with its "steps += 1" left out
RunFrameStepUncounted ==
    /\ frame.running
    /\ ~ppu.frame_ready
    /\ steps < max_steps
    /\ Commit(CpuStep(M))
    /\ total' = [ret   |-> total.ret + cpu'.cycles,
                 timer |-> total.timer + obs'.tadv,
                 ppu   |-> total.ppu + obs'.padv]
    /\ frame' = [frame EXCEPT
                    !.tcycles = @ + cpu'.cycles,
                    !.lines = IF ppu'.ly # ppu.ly THEN Append(@, ppu'.ly) ELSE @]
    /\ UNCHANGED <<steps, rom, bus, mbc, ctl, now, scan, apu>>

\* one iteration of "while not ppu.frame_ready and steps < max_steps"
RunFrameStep ==
    /\ frame.running
    /\ ~ppu.frame_ready
    /\ steps < max_steps
    /\ Step(CpuStep(M))
    /\ frame' = [frame EXCEPT
                    !.tcycles = @ + cpu'.cycles,
                    !.lines = IF ppu'.ly # ppu.ly THEN Append(@, ppu'.ly) ELSE @]

\* the loop is left and the framebuffer returned
RunFrameReturn ==
    /\ frame.running
    /\ ppu.frame_ready \/ steps >= max_steps
    /\ frame' = [frame EXCEPT !.running = FALSE, !.count = @ + 1]
    /\ UNCHANGED <<cpu, mmu, timer, ppu, joypad, rom, obs, total, steps, bus, mbc, ctl, now, scan, apu>>

NextFrame == RunFrameCall \/ RunFrameStep \/ RunFrameReturn

InitFrame == Boot /\ rom \in FrameProgs

SpecFrame == InitFrame /\ [][NextFrame]_vars

InitFrameOff == Boot /\ rom \in LcdOffProgs

SpecFrameOff == InitFrameOff /\ [][NextFrame]_vars

(***************************************************************************)
(* run_frame as a loop that is always scheduled: the images of SpecFrame   *)
(* (HALT with IE = 0, JR -2, a loop through memory) and the image that     *)
(* switches the LCD off.  run_frame is straight-line code around one       *)
(* "while": when the loop's condition holds the next iteration is run,     *)
(* when it fails the function returns.  The first fairness condition is    *)
(* WF_vars(RunFrameStep) with ENABLED <<RunFrameStep>>_vars written out:   *)
(* CpuStep is total and every iteration changes steps, so the action is    *)
(* enabled exactly when the loop's condition LoopGoesOn holds.             *)
(***************************************************************************)
InitRunFrame == Boot /\ rom \in (FrameProgs \cup LcdOffProgs)

\* "while not ppu.frame_ready and steps < max_steps" holds
LoopGoesOn == frame.running /\ ~ppu.frame_ready /\ steps < max_steps

SpecRunFrame ==
    /\ InitRunFrame
    /\ [][NextFrame]_vars
    /\ ([]<>(~LoopGoesOn) \/ []<><<RunFrameStep>>_vars)
    /\ WF_vars(RunFrameReturn)

(***************************************************************************)
(* step() called again and again on a CPU that halts: images that set IE   *)
(* and TAC, run NOP or EI, halt, and loop on JR -2 once awake.  With IME   *)
(* set the handler at 0x0050 runs through the empty ROM back into the      *)
(* image, which halts again.  A run is cut after MaxHaltSteps steps, but   *)
(* never while the CPU is halted with the timer running and its interrupt  *)
(* enabled.  The caller keeps calling step(): the fairness condition is    *)
(* WF_vars(NextHalt) with ENABLED <<NextHalt>>_vars written out (CpuStep   *)
(* is total and every step changes steps, so a step is enabled exactly     *)
(* when HaltBound holds).                                                  *)
(***************************************************************************)
MaxHaltSteps == 4400

HaltIeVals == {\H04, \H1B}
HaltTacVals == {\H01, \H05, \H06}
\* NOP, EI
HaltImeOps == {\H00, \HFB}

\* LD A,iev; LDH (0xFF),A; LD A,tac; LDH (0x07),A; NOP or EI; HALT; JR -2
HaltProgs ==
    {<<\H3E, iev, \HE0, \HFF, \H3E, tac, \HE0, \H07, e, \H76, \H18, \HFE>> :
        iev \in HaltIeVals, tac \in HaltTacVals, e \in HaltImeOps}

InitHalt == Boot /\ rom \in HaltProgs

\* halted, TAC bit 2 set, IE bit 2 set
HaltedOnTimer ==
    /\ cpu.halted
    /\ And(timer.tac, \H04) # 0
    /\ And(mmu.ie, \H04) # 0

HaltBound == steps < MaxHaltSteps \/ HaltedOnTimer

\* step() of a halted CPU with nothing pending: "self._tick(1)"
HaltedIdle ==
    /\ HaltBound
    /\ WillIdle
    /\ Step(CpuStep(M))
    /\ UNCHANGED frame

\* step() of a halted CPU with an interrupt pending: served or woken
HaltedWake ==
    /\ HaltBound
    /\ cpu.halted
    /\ ~WillIdle
    /\ Step(CpuStep(M))
    /\ UNCHANGED frame

\* step() of a CPU that is not halted
HaltRunning ==
    /\ HaltBound
    /\ ~cpu.halted
    /\ Step(CpuStep(M))
    /\ UNCHANGED frame

NextHalt == HaltedIdle \/ HaltedWake \/ HaltRunning

SpecHalt ==
    /\ InitHalt
    /\ [][NextHalt]_vars
    /\ ([]<>(~HaltBound) \/ []<><<NextHalt>>_vars)

(***************************************************************************)
(* Properties                                                              *)
(***************************************************************************)
\* bit i is the lowest-numbered bit set in pending
IsLowest(i, pending) ==
    /\ And(pending, Shl(1, i)) # 0
    /\ \A j \in 0 .. 4 : j < i => And(pending, Shl(1, j)) = 0

\* C1: the value step() returns is a positive multiple of 4 and is the
\* amount passed to Timer.step and to PPU.step during the call; over the
\* whole run the returned cycles sum to the Timer and to the PPU advance.
C1_CyclesMatchClocks ==
    /\ obs.kind # "none" =>
         /\ cpu.cycles > 0
         /\ cpu.cycles % 4 = 0
         /\ cpu.cycles = obs.tadv
         /\ cpu.cycles = obs.padv
    /\ total.ret = total.timer
    /\ total.ret = total.ppu

\* an interrupt service (20 cycles) after earlier opcodes, all accounted for
C1_Witness ==
    /\ obs.kind = "irq"
    /\ cpu.cycles = 20
    /\ obs.padv = 20
    /\ total.ret > 20
    /\ total.ppu = total.ret

\* C2: a step() that starts with IME = 1 and IE & IF & 0x1F # 0 executes no
\* opcode and services the lowest-numbered pending bit i: IF loses bit i
\* only, IME and halted are cleared, PC is pushed (high byte at SP-1, low
\* byte at SP-2, SP decreased by 2), PC = 0x40 + 8*i and 20 is returned.
C2_ServiceLowestPending ==
    [][ (cpu.ime /\ Pending(M) # 0) =>
          \E i \in 0 .. 4 :
              /\ IsLowest(i, Pending(M))
              /\ obs'.kind = "irq"
              /\ obs'.irq = i
              /\ mmu'.io[15] = Or(AndNot8(mmu.io[15], Shl(1, i)), obs'.raised)
              /\ ~cpu'.ime
              /\ ~cpu'.halted
              /\ cpu'.sp = (cpu.sp - 2) % 65536
              /\ MmuRead(M', (cpu.sp - 1) % 65536) = Shr(cpu.pc, 8)
              /\ MmuRead(M', (cpu.sp - 2) % 65536) = And(cpu.pc, \HFF)
              /\ cpu'.pc = \H0040 + 8 * i
              /\ cpu'.cycles = 20 ]_vars

\* a step() entered with IME = 1 has serviced Serial (bit 3) while Joypad
\* (bit 4) stays pending
C2_Witness ==
    /\ obs.kind = "irq"
    /\ obs.ime
    /\ obs.irq = 3
    /\ cpu.pc = \H0058
    /\ And(mmu.io[15], \H18) = \H10
    /\ And(mmu.ie, \H18) = \H18
    /\ cpu.sp = \HFFFC

\* C3: after EI executes with IME = 0 and an enabled interrupt pending, the
\* next step() executes the opcode that follows EI (no service yet).
C3_EiDelaysOneInstruction ==
    [][ (obs.kind = "op" /\ obs.op = \HFB /\ ~cpu.ime /\ Pending(M) # 0) =>
          (obs'.kind = "op" /\ obs'.op = MmuRead(M, cpu.pc)) ]_vars

\* C4: after HALT executes with IME = 0 and IE & IF & 0x1F # 0, the CPU is
\* not halted and the fetch of the following INC A leaves PC where it is.
C4_HaltBugFetchesTwice ==
    [][ (/\ obs.kind = "op" /\ obs.op = \H76
         /\ ~cpu.ime /\ Pending(M) # 0
         /\ MmuRead(M, cpu.pc) = \H3C) =>
          (/\ ~cpu.halted
           /\ obs'.kind = "op" /\ obs'.op = \H3C
           /\ cpu'.a = (cpu.a + 1) % 256
           /\ cpu'.pc = cpu.pc) ]_vars

\* C5: a CPU halted with IME = 0: while IE & IF & 0x1F = 0 a step() returns
\* 4 and changes no register, PC or SP; the first step() that starts with
\* IE & IF & 0x1F # 0 clears halted and executes the opcode after HALT
\* without servicing: IF loses no bit, IME stays 0, nothing is pushed.
C5_HaltLowPower ==
    [][ (cpu.halted /\ ~cpu.ime) =>
          IF Pending(M) = 0
          THEN /\ cpu'.cycles = 4
               /\ obs'.kind = "halt"
               /\ [cpu' EXCEPT !.cycles = 0] = [cpu EXCEPT !.cycles = 0]
          ELSE /\ ~cpu'.halted
               /\ obs'.kind = "op"
               /\ obs'.op = MmuRead(M, cpu.pc)
               /\ mmu'.io[15] = Or(mmu.io[15], obs'.raised)
               /\ ~cpu'.ime
               /\ cpu'.sp = cpu.sp
               /\ mmu'.ram = mmu.ram ]_vars

\* woken by the timer interrupt request: INC A after HALT ran, IME still 0,
\* the request still in IF
C5_Witness ==
    /\ obs.woke
    /\ obs.kind = "op"
    /\ obs.op = \H3C
    /\ ~cpu.ime
    /\ ~cpu.halted
    /\ And(mmu.io[15], \H04) # 0
    /\ cpu.sp = \HFFFE

\* C6: after an illegal opcode is executed no step() executes an opcode.
C6_IllegalOpcodeStalls ==
    [][ (obs.kind = "op" /\ obs.op \in IllegalOpcodes) => obs'.kind # "op" ]_vars

\* C7: the low nibble of F is zero in every state.
C7_FlagLowNibbleZero == And(cpu.f, \H0F) = 0

\* POP AF of the word 0xFFFF
C7_Witness ==
    /\ obs.kind = "op"
    /\ obs.op = \HF1
    /\ cpu.b = \HFF
    /\ cpu.c = \HFF
    /\ cpu.a = \HFF
    /\ cpu.f = \HF0

\* C8: the stored IF and IE have bits 7-5 clear in every state.
C8_IrqRegistersMasked ==
    /\ And(mmu.io[15], \HE0) = 0
    /\ And(mmu.ie, \HE0) = 0

\* C9: LY is in [0, 153] in every state.
C9_LyInRange == ppu.ly \in 0 .. 153

\* the last line, with 0x99 written to 0xFF44 and the LCD switched off
C9_Witness ==
    /\ ppu.ly = 153
    /\ mmu.io[68] = \H99
    /\ And(ppu.lcdc, \H80) = 0

\* C10: while LCDC bit 7 is 0, LY is 0 and the mode is 0.
C10_LcdOffHoldsLineZero ==
    And(ppu.lcdc, \H80) = 0 => (ppu.ly = 0 /\ And(PpuStatGet(ppu), 3) = 0)

\* C11: with the LCD on, run_frame returns with frame_ready set, LY = 144
\* and mode 1, and between two consecutive returns LY enters every value
\* of 0..153 exactly once.
C11_OneFramePerCall ==
    (~frame.running /\ frame.count >= 1) =>
        /\ ppu.frame_ready
        /\ ppu.ly = 144
        /\ ppu.mode = 1
        /\ frame.count >= 2 =>
             /\ Len(frame.lines) = 154
             /\ \A y \in 0 .. 153 : \E k \in 1 .. 154 : frame.lines[k] = y

\* the second call has returned after a whole frame
C11_Witness ==
    /\ ~frame.running
    /\ frame.count = 2
    /\ frame.tcycles = 70224
    /\ Len(frame.lines) = 154
    /\ And(ppu.lcdc, \H80) # 0

\* C12: one call of run_frame executes at most 2 * 70224 T-cycles.
C12_FrameBoundInCycles == frame.tcycles <= 2 * 70224


\* C13: with the LCD on and the PPU advanced in ticks of 4 T-cycles, every
\* line lasts 456 T-cycles: lines 0..143 are in mode 2 for the first 80, in
\* mode 3 for the next 172 and in mode 0 for the last 204, lines 144..153 are
\* in mode 1, the frame has 154 lines (70224 T-cycles), and VBlank is entered
\* exactly every 70224 T-cycles (first after 144 lines).
LineClock == total.ppu % 456

C13_LineTiming ==
    /\ ppu.ly = (total.ppu \div 456) % 154
    /\ ppu.mode = IF ppu.ly >= 144 THEN 1
                  ELSE IF LineClock < 80 THEN 2
                  ELSE IF LineClock < 80 + 172 THEN 3
                  ELSE 0
    /\ (And(obs.raised, 1) # 0) <=> (total.ppu % 70224 = 144 * 456)

\* the second VBlank entry, 70224 T-cycles after the first
C13_Witness ==
    /\ total.ppu = 144 * 456 + 70224
    /\ ppu.ly = 144 /\ ppu.mode = 1
    /\ And(obs.raised, 1) # 0

\* C14: PPU.step requests the VBlank interrupt (IF bit 0) and sets
\* frame_ready exactly in the step that takes LY from 143 to 144, and in no
\* other step or register write.
EntersVBlank == ppu.ly = 143 /\ ppu'.ly = 144

C14_VBlankOnlyOnEntry ==
    [][/\ (And(obs'.raised, 1) # 0) <=> EntersVBlank
       /\ EntersVBlank => ppu'.frame_ready /\ ppu'.mode = 1
       /\ (ppu'.frame_ready # ppu.frame_ready) => EntersVBlank
       /\ (And(mmu'.io[15], 1) # And(mmu.io[15], 1)) => EntersVBlank]_vars

C14_Witness ==
    /\ ppu.ly = 144 /\ ppu.mode = 1 /\ ppu.cycles = 0
    /\ ppu.frame_ready /\ And(obs.raised, 1) # 0 /\ And(mmu.io[15], 1) # 0


\* C15: with TAC bit 2 set, TIMA is incremented once per P accumulated
\* T-cycles, P = {1024, 16, 64, 256}[TAC & 3]; an increment from 0xFF reloads
\* TIMA with TMA and sets IF bit 2; with TAC bit 2 clear Timer.step changes
\* neither TIMA nor IF.
Period == FREQS[And(timer.tac, 3) + 1]

\* TIMA after n increments, each increment from 0xFF reloading tma
RECURSIVE AfterIncrements(_, _, _)
AfterIncrements(tima, tma, n) ==
    IF n = 0 THEN tima
    ELSE AfterIncrements(IF tima = \HFF THEN tma ELSE tima + 1, tma, n - 1)

\* whether one of n increments starts from 0xFF
RECURSIVE Overflows(_, _, _)
Overflows(tima, tma, n) ==
    IF n = 0 THEN FALSE
    ELSE \/ tima = \HFF
         \/ Overflows(IF tima = \HFF THEN tma ELSE tima + 1, tma, n - 1)

\* increments due between two totals of accumulated T-cycles
IncrementsDue == (total'.timer \div Period) - (total.timer \div Period)

C15_TimaRate ==
    [][IF And(timer.tac, 4) # 0
       THEN /\ timer'.tima = AfterIncrements(timer.tima, timer.tma, IncrementsDue)
            /\ (And(obs'.raised, 4) # 0)
                   <=> Overflows(timer.tima, timer.tma, IncrementsDue)
            /\ And(obs'.raised, 4) # 0 => And(mmu'.io[15], 4) # 0
            /\ And(obs'.raised, 4) = 0 => mmu'.io[15] = mmu.io[15]
       ELSE timer'.tima = timer.tima /\ mmu'.io[15] = mmu.io[15]]_vars

\* an overflow has just reloaded a non-zero TMA
C15_Witness ==
    /\ And(timer.tac, 4) # 0
    /\ And(obs.raised, 4) # 0
    /\ timer.tima = \HFD /\ timer.tma = \HFD
    /\ And(mmu.io[15], 4) # 0


\* C16: for every byte v and every state of the timer, write(0xFF04, v)
\* resets the timer's counter to 0 and stores nothing of v, and a read of
\* 0xFF04 that follows at once, by MMU.read or by the CPU's _read, returns 0.
DivWrite(a) == a.op = "write" /\ a.addr = \HFF04

C16_DivWriteThenReadIsZero ==
    /\ DivWrite(bus.last) => timer.div = 0 /\ mmu.io[4] = 0
    /\ /\ DivWrite(bus.prev)
       /\ bus.last.op \in {"read", "cpu_read"}
       /\ bus.last.addr = \HFF04
       => bus.last.value = 0

\* DIV read 0x12 before 0x5A was written to it; the CPU then reads 0
C16_Witness ==
    /\ DivWrite(bus.prev) /\ bus.prev.value = \H5A /\ bus.prev.before = \H12
    /\ bus.last = Access("cpu_read", \HFF04, 0, 0)
    /\ timer.div = 4

\* C19: an address of 0xFF00..0xFF7F that belongs to no component's
\* registers (0xFF03, 0xFF4D) reads 0xFF, at first and after any writes.
UnusedIo == {\HFF03, \HFF4D}

C19_UnusedIoReadsFF ==
    /\ \A a \in UnusedIo : MmuRead(M, a) = \HFF
    /\ bus.last.op \in {"read", "cpu_read"} /\ bus.last.addr \in UnusedIo
       => bus.last.value = \HFF


\* C17: from TAC = 0x05, TMA = TIMA = 0xFF, IE = 0x04 and IME = 1, with NOPs
\* ahead, TIMA overflows and IF bit 2 is set within 16 T-cycles (four NOPs),
\* and the step() after the NOP in which it overflowed is the interrupt
\* service that sets PC to 0x0050.
TimerArmed ==
    /\ timer.tac = \H05 /\ timer.tma = \HFF /\ timer.tima = \HFF
    /\ mmu.ie = \H04 /\ And(mmu.io[15], 4) = 0
    /\ cpu.ime /\ ~cpu.halted /\ ~cpu.halt_bug
    /\ \A i \in 0 .. 3 : MmuRead(M, cpu.pc + i) = 0

RECURSIVE StepsFrom(_, _)
StepsFrom(m, n) == IF n = 0 THEN m ELSE StepsFrom(CpuStep(m), n - 1)

OverflowsInNop(m) ==
    m.obs.kind = "op" /\ m.obs.op = 0 /\ And(m.obs.raised, 4) # 0

ServedAt50(m) ==
    m.obs.kind = "irq" /\ m.obs.irq = 2 /\ m.cpu.pc = \H0050

C17_TimerInterruptResponse ==
    TimerArmed =>
        \E n \in 1 .. 4 :
            /\ \A j \in 1 .. n - 1 : And(StepsFrom(M, j).mmu.io[15], 4) = 0
            /\ OverflowsInNop(StepsFrom(M, n))
            /\ ServedAt50(StepsFrom(M, n + 1))

\* the service step reached after the overflow, TIMA reloaded with 0xFF
C17_Witness ==
    /\ ServedAt50(M)
    /\ timer.tac = \H05 /\ timer.tma = \HFF /\ timer.tima = \HFF
    /\ mmu.ie = \H04 /\ ~cpu.ime

\* C18: a write of v to 0xFF46 sets OAM[i] to read((v << 8) + i) for every
\* i in 0..159 within that write, and the instruction that makes the write
\* (LDH (0x46),A) takes its ordinary 12 T-cycles: two fetches and the write.
DmaStep ==
    /\ obs'.kind = "op" /\ obs'.op = \HE0
    /\ MmuRead(M, cpu.pc + 1) = \H46

\* the machine at the write: the step's result before OAM and io[0x46] changed
AtDmaWrite == [M' EXCEPT !.mmu.ram = mmu.ram, !.mmu.io[\H46] = mmu.io[\H46]]

C18_DmaCopiesPage ==
    [][DmaStep =>
         /\ \A i \in 0 .. 159 :
                MmuRead(M', \HFE00 + i) = MmuRead(AtDmaWrite, Shl(cpu.a, 8) + i)
         /\ cpu'.cycles = 12
         /\ obs'.tadv = 12 /\ obs'.padv = 12]_vars

\* a DMA from WRAM page 0xC0 has put the stored byte into OAM[0x10]
C18_Witness ==
    /\ obs.kind = "op" /\ obs.op = \HE0 /\ cpu.a = \HC0
    /\ mmu.io[\H46] = \HC0
    /\ RamGet(mmu.ram, \HC010) = \H5A
    /\ MmuRead(M, \HFE10) = \H5A


\* C20: after any control writes to an MBC1, with low = the last value
\* written to 0x2000..0x3FFF masked with 0x1F and 0 replaced by 1 (1 at
\* first), upper = the last value written to 0x4000..0x5FFF masked with 3
\* and mode = the last value written to 0x6000..0x7FFF masked with 1, a read
\* in 0x4000..0x7FFF returns ROM[((upper << 5) | low) * 0x4000 + addr -
\* 0x4000], a read below 0x4000 returns ROM[addr] in mode 0 and
\* ROM[(upper << 5) * 0x4000 + addr] in mode 1 (wherever that offset lies in
\* the image), and banks 0x00, 0x20, 0x40, 0x60 are never at 0x4000..0x7FFF.
LastLow ==
    IF ctl.low = -1 THEN 1
    ELSE IF And(ctl.low, \H1F) = 0 THEN 1 ELSE And(ctl.low, \H1F)
LastUpper == IF ctl.upper = -1 THEN 0 ELSE And(ctl.upper, 3)
LastMode == IF ctl.mode = -1 THEN 0 ELSE And(ctl.mode, 1)

\* the offset into the image the claim gives for an address
ClaimedOffset(addr) ==
    IF addr >= \H4000
    THEN Or(Shl(LastUpper, 5), LastLow) * \H4000 + addr - \H4000
    ELSE IF LastMode = 0 THEN addr
    ELSE Shl(LastUpper, 5) * \H4000 + addr

MappedHigh == Or(Shl(mbc.rom_bank_high, 5), mbc.rom_bank_low)

C20_Mbc1RomMapping ==
    /\ \A addr \in ReadAddrs :
          ClaimedOffset(addr) < mbc.rom_len
             => Mbc1ReadRom(mbc, addr) = CartByte(ClaimedOffset(addr))
    /\ bus.last.op = "read" /\ ClaimedOffset(bus.last.addr) < mbc.rom_len
          => bus.last.value = CartByte(ClaimedOffset(bus.last.addr))
    /\ MappedHigh \notin {\H00, \H20, \H40, \H60}
    /\ MappedHigh = Or(Shl(LastUpper, 5), LastLow)

\* 0x20 written as the low bank and 0x62 as the upper bits, mode 1: bank
\* 0x41 is read at 0x4000 and bank 0x40 at 0x0000
C20_Witness ==
    /\ ctl.low = \H20 /\ ctl.upper = \H62 /\ ctl.mode = \HFF
    /\ mbc.rom_len = \H200000
    /\ bus.last = Access("read", \H4000, \H41, \H41)
    /\ Mbc1ReadRom(mbc, \H0000) = \H40


\* C21: on MBC1, MBC3 and MBC5 the cartridge RAM is disabled at first, a
\* write to 0x0000..0x1FFF enables it iff the low nibble of the value is 0xA,
\* and while it is disabled every read of 0xA000..0xBFFF returns 0xFF and
\* every write leaves the RAM's contents as they were.
RamEnabledAsClaimed == ctl.enable # -1 /\ And(ctl.enable, \H0F) = \H0A

C21_RamOnlyWhileEnabled ==
    [][/\ mbc.ram_enabled <=> RamEnabledAsClaimed
       /\ ~RamEnabledAsClaimed =>
             /\ \A a \in CartRamAddrs : CartReadRam(mbc, a, now)[2] = \HFF
             /\ bus'.last.op = "read" => bus'.last.value = \HFF
             /\ mbc'.ram = mbc.ram]_vars

\* 0x5A stored while enabled, RAM disabled again by 0x0B, and a read of the
\* same address returning 0xFF
C21_Witness ==
    /\ mbc.kind = "MBC3"
    /\ ctl.enable = \H0B
    /\ RamGet(mbc.ram, 0) = \H5A
    /\ bus.last = Access("read", \HA000, \HFF, \HFF)


\* C22: once 0x00 and then 0x01 have been written to 0x6000..0x7FFF of an
\* MBC3, a read of a selected RTC register (0x08..0x0C) returns the value
\* captured at the 0x01 write, whatever the clock does, until a later
\* 0x00-then-0x01 sequence is complete; no single step from the state after
\* the 0x01 write completes one.
SnapshotTaken == ctl.mode_prev = 0 /\ ctl.mode = 1

\* what read_ram returns for RTC register r when it is selected
RtcValue(c, r, t) ==
    IF c.rtc_latched THEN c.rtc_latched_data[r] ELSE UpdateRtc(c, t).rtc[r]

C22_LatchHoldsSnapshot ==
    [][SnapshotTaken =>
          \A r \in RtcRegs : RtcValue(mbc', r, now') = RtcValue(mbc, r, now)]_vars

\* the sprites of OAM that show a colour at column sx of line 0
Shown(sx) ==
    {n \in 0 .. 39 :
        /\ Oam(M, 4 * n) - 16 <= 0 /\ 0 < Oam(M, 4 * n) - 16 + SpriteHeight(M)
        /\ SpriteColor(M, 0, Oam(M, 4 * n + 1) - 8, 4 * n, sx) # 0}

\* the sprite of a set that is on top: the lowest X, and of those with that
\* X the lowest OAM index
OnTop(ns) ==
    CHOOSE n \in ns : \A k \in ns :
        \/ Oam(M, 4 * n + 1) < Oam(M, 4 * k + 1)
        \/ Oam(M, 4 * n + 1) = Oam(M, 4 * k + 1) /\ n <= k

\* C23: where sprites overlap on a rendered line, the pixel shown is that of
\* the sprite with the lower X, and at equal X of the lower OAM index
C23_SpritePriority ==
    scan.done =>
        \A sx \in 0 .. 159 :
            Shown(sx) # {} =>
                scan.row[sx] =
                    ObjPalette(ppu.obp0,
                               SpriteColor(M, 0, Oam(M, 4 * OnTop(Shown(sx)) + 1) - 8,
                                           4 * OnTop(Shown(sx)), sx))

\* what does hold: of overlapping sprites with different X the one
\* with the lower X is shown
LowerXOnTop ==
    scan.done =>
        \A sx \in 0 .. 159 :
            (Shown(sx) # {} /\ \A n, k \in Shown(sx) :
                                  n # k => Oam(M, 4 * n + 1) # Oam(M, 4 * k + 1)) =>
                scan.row[sx] =
                    ObjPalette(ppu.obp0,
                               SpriteColor(M, 0, Oam(M, 4 * OnTop(Shown(sx)) + 1) - 8,
                                           4 * OnTop(Shown(sx)), sx))

\* A and F as the image put them before its DAA
DaaA == rom[3]
DaaF == rom[2]
\* the 0x60 correction was applied: A moved by 0x60 or 0x66 in the direction
\* N gives
Corrected60 ==
    LET d == IF And(DaaF, \H40) # 0 THEN (DaaA - cpu.a) % 256
             ELSE (cpu.a - DaaA) % 256
    IN  d \in {\H60, \H66}

FromBcd(b) == 10 * (b \div 16) + (b % 16)
ToBcd(n) == 16 * (n \div 10) + (n % 10)
BcdSum == FromBcd(rom[2]) + FromBcd(rom[4])

\* C24: DAA keeps N, clears H, sets Z iff the new A is 0 and sets C iff the
\* 0x60 correction was applied or C was set; after ADD A,y with A = x, both
\* packed BCD, DAA leaves the packed BCD of (x + y) mod 100 in A and C = 1 iff
\* x + y >= 100
C24_DaaLaw ==
    /\ (AfterDaa /\ rom \in DaaLawProgs) =>
          /\ And(cpu.f, \H40) = And(DaaF, \H40)
          /\ And(cpu.f, \H20) = 0
          /\ And(cpu.f, \H80) # 0 <=> cpu.a = 0
          /\ And(cpu.f, \H10) # 0 <=> (Corrected60 \/ And(DaaF, \H10) # 0)
    /\ (AfterDaa /\ rom \in DaaAddProgs) =>
          /\ cpu.a = ToBcd(BcdSum % 100)
          /\ And(cpu.f, \H10) # 0 <=> BcdSum >= 100
          /\ And(cpu.f, \H60) = 0
          /\ And(cpu.f, \H80) # 0 <=> cpu.a = 0

C24_Witness ==
    /\ AfterDaa
    /\ rom = <<\H3E, \H15, \HC6, \H27, \H27>>
    /\ cpu.a = \H42
    /\ cpu.f = 0

CpuAccess == bus.last.op \in {"cpu_fetch", "cpu_read", "cpu_write"}

\* C25: every memory access of the CPU (fetch, read, write) advances the
\* timer and the PPU 4 T-cycles first: the byte a fetch or a read obtains is
\* the one the address holds after the tick, and a write lands on the state
\* after the tick (a write to DIV leaves the counter at 0)
C25_TickBeforeAccess ==
    CpuAccess =>
        /\ obs.tadv = 4 /\ obs.padv = 4
        /\ bus.last.op \in {"cpu_fetch", "cpu_read"} =>
              bus.last.value = MmuRead(M, bus.last.addr)
        /\ (bus.last.op = "cpu_write" /\ bus.last.addr = \HFF04) => timer.div = 0

\* the same for the accesses other than _fetch
TickBeforeReadWrite == bus.last.op # "cpu_fetch" => C25_TickBeforeAccess

\* C30: when LCDC bit 7 is set again after it was cleared, the PPU starts
\* over at LY = 0, mode 2, with nothing accumulated towards the line
C30_EnableRestartsFrame ==
    [][(And(ppu.lcdc, \H80) = 0 /\ And(ppu'.lcdc, \H80) # 0) =>
          (ppu'.ly = 0 /\ ppu'.mode = 2 /\ ppu'.cycles = 0)]_vars

\* end_frame as it runs with a device whose queue has room
WithDevice(a) == [EndFrame([a EXCEPT !.device_id = 2], FALSE) EXCEPT !.device_id = a.device_id]

\* C26: without an audio device end_frame advances the APU as it does with
\* one: the frame sequencer steps, lengths run down and disable channels,
\* envelopes move the volumes
C26_SilentFrameAdvances ==
    [][(frame'.count = frame.count + 1 /\ apu.device_id = 0) =>
          apu' = WithDevice(apu)]_vars

\* the step is APU.write(reg, v) for some v
Wrote(reg) == bus'.last.op = "write" /\ bus'.last.addr = reg
WroteBit7 == And(bus'.last.value, \H80) # 0

\* C27: with the master enable on, a write to NRx4 with bit 7 set leaves the
\* channel enabled iff its DAC is on, reloads a length of 0 to the maximum
\* and keeps any other, reloads the volume (channels 1, 2, 4) and sets the
\* LFSR to 0x7FFF (channel 4); with bit 7 clear it does none of these
C27_Trigger ==
    [][\A n \in 1 .. 4 :
          (Wrote(TriggerReg[n]) /\ apu.master_enable) =>
              LET old == Channel(apu, n)
                  new == Channel(apu', n)
              IN  IF WroteBit7
                  THEN /\ new.enabled = old.dac
                       /\ new.length = IF old.length = 0 THEN LengthMax[n]
                                       ELSE old.length
                       /\ new.vol = old.vol_init
                       /\ n = 4 => apu'.ch4_lfsr = \H7FFF
                  ELSE /\ new.enabled = old.enabled
                       /\ new.length = old.length
                       /\ new.vol = old.vol
                       /\ apu'.ch4_lfsr = apu.ch4_lfsr]_vars

\* channel 4 triggered again after a frame has run its length down and
\* clocked its LFSR
C27_Witness ==
    /\ frame.count > 0
    /\ bus.last = Access("write", \H23, \HC0, 0)
    /\ apu.ch4_enabled /\ apu.ch4_lfsr = \H7FFF /\ apu.ch4_length = 60

AnyEnabled(a) == a.ch1_enabled \/ a.ch2_enabled \/ a.ch3_enabled \/ a.ch4_enabled
WaveReg(reg) == \H30 <= reg /\ reg <= \H3F

\* C28: NR52 bit 7 is the master enable; clearing it disables the four
\* channels; while it is clear only writes to NR52 and to the wave RAM change
\* anything, and a channel becomes enabled only by a trigger written while
\* it is set
C28_MasterEnable ==
    [][/\ apu'.master_enable =
            IF Wrote(\H26) THEN WroteBit7 ELSE apu.master_enable
       /\ ~apu'.master_enable => ~AnyEnabled(apu')
       /\ ~apu.master_enable =>
             /\ (~Wrote(\H26) /\ ~WaveReg(bus'.last.addr)) => apu' = apu
             /\ (bus'.last.op = "write" /\ WaveReg(bus'.last.addr)) =>
                   /\ apu'.ch3_wave[(bus'.last.addr - \H30) * 2]
                         = Shr(bus'.last.value, 4)
                   /\ apu'.ch3_wave[(bus'.last.addr - \H30) * 2 + 1]
                         = And(bus'.last.value, \HF)
       /\ \A n \in 1 .. 4 :
             (Channel(apu', n).enabled /\ ~Channel(apu, n).enabled) =>
                 (apu.master_enable /\ Wrote(TriggerReg[n]) /\ WroteBit7)]_vars

\* a trigger written while the power is off, after the power was on with
\* the channel's DAC on, and a wave RAM write that took effect
C28_Witness ==
    /\ ~apu.master_enable
    /\ bus.last = Access("write", \H14, \H80, 0)
    /\ apu.ch1_dac /\ ~apu.ch1_enabled
    /\ apu.ch3_wave[0] = 1 /\ apu.ch3_wave[1] = 2

\* the LFSR after one clock, as stated: x = bit 0 XOR bit 1 is shifted in at
\* bit 14, and in 7-bit mode also replaces bit 6
Clocked(lfsr, width) ==
    LET x == ((lfsr % 2) + ((lfsr \div 2) % 2)) % 2
        r == (lfsr \div 2) + 16384 * x
    IN  IF width THEN r - 64 * ((r \div 64) % 2) + 64 * x ELSE r

\* C29, the clock: every clock of the LFSR is the stated step
C29_LfsrClock ==
    [][steps' = steps + 1 =>
          apu'.ch4_lfsr = Clocked(apu.ch4_lfsr, apu.ch4_width)]_vars

\* C29: in 15-bit mode from the trigger value 0x7FFF, bit 0 is 1 at the
\* trigger and after each of the first 14 clocks and 0 after the 15th, the
\* LFSR is 0x7FFF again after 32767 clocks and not before, and it is never 0
\* and never above 0x7FFF
C29_LfsrSequence ==
    (apu.ch4_enabled /\ ~apu.ch4_width) =>
        /\ steps <= 14 => apu.ch4_lfsr % 2 = 1
        /\ steps = 15 => apu.ch4_lfsr % 2 = 0
        /\ (steps > 0 /\ apu.ch4_lfsr = \H7FFF) => steps = 32767
        /\ steps = 32767 => apu.ch4_lfsr = \H7FFF
        /\ apu.ch4_lfsr # 0
        /\ apu.ch4_lfsr <= \H7FFF

\* the 15th clock in 15-bit mode: the first 0 comes out
C29_Witness ==
    apu.ch4_enabled /\ ~apu.ch4_width /\ steps = 15 /\ apu.ch4_lfsr = \H4000

\* the LFSR back at the trigger value
LfsrPeriodEnds ==
    apu.ch4_enabled /\ ~apu.ch4_width /\ steps = 32767 /\ apu.ch4_lfsr = \H7FFF

\* in 7-bit mode from the trigger value the LFSR stays within 1 .. 0x7FFF too
NarrowLfsrInRange ==
    (apu.ch4_enabled /\ apu.ch4_width) => (apu.ch4_lfsr # 0 /\ apu.ch4_lfsr <= \H7FFF)

(***************************************************************************)
(* STAT interrupt sources (SpecStat)                                       *)
(***************************************************************************)
\* the step ended with the PPU having entered mode k
Enters(k) == ppu.mode # k /\ ppu'.mode = k

\* the step requested the STAT interrupt: IF bit 1 was or-ed in
StatRequested == And(obs'.raised, 2) # 0 /\ And(mmu'.io[15], 2) # 0

StatBit(b) == And(ppu.stat, b) # 0

\* the step changed LY to the value of LYC with STAT bit 6 set
LycRequested ==
    ppu'.ly # ppu.ly /\ ppu'.ly = ppu'.lyc /\ And(ppu'.stat, \H40) # 0

\* C31: the PPU sets IF bit 1 on entry to mode 2 iff STAT bit 5 is set, on
\* entry to mode 0 iff STAT bit 3 is set and on entry to mode 1 iff STAT bit 4
\* is set, a simultaneous LY = LYC request apart; with STAT bits 3..6 all
\* clear no step of the PPU sets IF bit 1.
C31_StatModeIrq ==
    [][ /\ Enters(2) => /\ StatBit(\H20) => StatRequested
                        /\ StatRequested => StatBit(\H20) \/ LycRequested
        /\ Enters(0) => /\ StatBit(\H08) => StatRequested
                        /\ StatRequested => StatBit(\H08) \/ LycRequested
        /\ Enters(1) => /\ StatBit(\H10) => StatRequested
                        /\ StatRequested => StatBit(\H10) \/ LycRequested
        /\ And(ppu.stat, \H78) = 0 => And(obs'.raised, 2) = 0
      ]_vars

\* line 144 has just been entered with only STAT bit 4 set and LYC = 0: the
\* STAT interrupt was requested by the entry to mode 1
C31_Witness ==
    /\ ppu.mode = 1 /\ ppu.ly = 144 /\ ppu.cycles = 0
    /\ And(ppu.stat, \H78) = \H10 /\ ppu.lyc = 0
    /\ And(obs.raised, 2) # 0 /\ And(mmu.io[15], 2) # 0

\* the other two entries: mode 0 with only bit 3 set, mode 2 with only bit 5
StatIrqOnHBlank ==
    ~(ppu.mode = 0 /\ And(ppu.stat, \H78) = \H08 /\ And(obs.raised, 2) # 0)
StatIrqOnOam ==
    ~(ppu.mode = 2 /\ And(ppu.stat, \H78) = \H20 /\ And(obs.raised, 2) # 0
      /\ ppu.ly # ppu.lyc)

\* C32: after every change of LY, the wrap 153 -> 0 included, STAT bit 2
\* equals (LY = LYC) and the comparison raises IF bit 1 iff LY = LYC and STAT
\* bit 6 is set (a request made by the mode entry of the same step apart); a
\* write to STAT leaves bit 2 and the mode bits of the register as they were.
C32_LycCompare ==
    [][ /\ ppu'.ly # ppu.ly =>
              /\ (And(PpuStatGet(ppu'), 4) # 0) <=> (ppu'.ly = ppu'.lyc)
              /\ LycRequested => StatRequested
              /\ StatRequested =>
                    \/ LycRequested
                    \/ Enters(2) /\ StatBit(\H20)
                    \/ Enters(1) /\ StatBit(\H10)
        /\ bus'.last.op = "write" /\ bus'.last.addr = \HFF41 =>
              /\ And(ReadIo(M', \HFF41), 7) = And(ReadIo(M, \HFF41), 7)
              /\ ppu'.mode = ppu.mode
      ]_vars

\* LY has wrapped to 0 = LYC with only STAT bit 6 set: bit 2 is set and the
\* comparison requested the interrupt
C32_Witness ==
    /\ ppu.ly = 0 /\ ppu.lyc = 0 /\ ppu.mode = 2 /\ ppu.cycles = 0
    /\ total.ppu > 0 /\ bus.last.op = "none"
    /\ And(ppu.stat, \H7C) = \H44
    /\ And(obs.raised, 2) # 0

\* a write to STAT of a value whose bit 2 differs from the register's
StatWriteOfOtherBit2 ==
    ~(/\ bus.last.op = "write" /\ bus.last.addr = \HFF41
      /\ And(bus.last.value, 4) # And(ppu.stat, 4)
      /\ ppu.mode = 3)

(***************************************************************************)
(* The window line counter (SpecWindow)                                    *)
(***************************************************************************)
\* C33: window_line grows by exactly 1 on each rendered scanline (LY < 144)
\* with LCDC bit 5 set, WY <= LY and WX - 7 < 160, is reset to 0 when LY wraps
\* from 153 to 0 and is left alone by every other step and write; so it
\* always equals the number of scanlines of the frame so far on which the
\* window was drawn.
C33_WindowLine ==
    /\ [](ppu.window_line = steps)
    /\ [][ /\ RendersLine /\ WindowOnLine =>
                 ppu'.window_line = ppu.window_line + 1
           /\ WrapsLy => ppu'.window_line = 0
           /\ ~(RendersLine /\ WindowOnLine) /\ ~WrapsLy =>
                 ppu'.window_line = ppu.window_line
         ]_vars

\* line 1 has been rendered with the window on it (WY = 1), line 0 was
\* rendered without
C33_Witness ==
    /\ ppu.ly = 1 /\ ppu.mode = 0 /\ ppu.window_line = 1 /\ steps = 1
    /\ And(ppu.lcdc, \H20) # 0 /\ ppu.wy = 1 /\ ppu.wx = 7

\* LY has wrapped in a frame that drew the window: the counter is back at 0
WindowLineReset ==
    ~(total.ppu > 70224 /\ ppu.window_line = 0 /\ And(ppu.lcdc, \H20) # 0
      /\ ppu.wx = 7 /\ ppu.ly = 0 /\ ppu.mode = 2 /\ ppu.cycles < 80)

\* the counter reaches 144: the window on every line of the frame
WindowOnEveryLine == ppu.window_line < 144

(***************************************************************************)
(* Control-flow and stack timing (SpecFlow)                                *)
(***************************************************************************)
\* the condition of a conditional opcode on the flags f: bits 4-3 of the
\* opcode select NZ, Z, NC, C
FlowTaken(op, f) ==
    CASE And(Shr(op, 3), 3) = 0 -> And(f, \H80) = 0
      [] And(Shr(op, 3), 3) = 1 -> And(f, \H80) # 0
      [] And(Shr(op, 3), 3) = 2 -> And(f, \H10) = 0
      [] OTHER                  -> And(f, \H10) # 0

\* the T-cycles the claim gives for opcode op met with flags f
FlowCycles(op, f) ==
    CASE op = \H18 -> 12
      [] op \in JrOps -> IF FlowTaken(op, f) THEN 12 ELSE 8
      [] op = \HC3 -> 16
      [] op \in JpOps -> IF FlowTaken(op, f) THEN 16 ELSE 12
      [] op = \HE9 -> 4
      [] op = \HCD -> 24
      [] op \in CallOps -> IF FlowTaken(op, f) THEN 24 ELSE 12
      [] op \in {\HC9, \HD9} -> 16
      [] op \in RetOps -> IF FlowTaken(op, f) THEN 20 ELSE 8
      [] op \in RstOps -> 16
      [] op \in PushOps -> 16
      [] OTHER -> 12

\* the flags the image loads before its last opcode
FlowF == And(rom[2], \HF0)

\* C34: step() returns 8 / 12 T-cycles for JR cc not taken / taken, 12 / 16
\* for JP cc, 12 / 24 for CALL cc, 8 / 20 for RET cc, 16 for JP, RET, RETI and
\* PUSH, 24 for CALL, 12 for POP and JR, 16 for RST and 4 for JP HL; PUSH
\* spends its internal delay before it writes the first byte, so that after a
\* PUSH whose first byte resets DIV the counter has run for one access only.
C34_FlowTiming ==
    /\ obs.kind = "op" /\ obs.op \in FlowOps =>
          cpu.cycles = FlowCycles(obs.op, FlowF)
    /\ rom \in PushOnDivProgs /\ obs.kind = "op" /\ obs.op \in PushOps =>
          timer.div = 4 /\ cpu.sp = \HFF03

\* CALL NZ taken
C34_Witness ==
    /\ obs.kind = "op" /\ obs.op = \HC4 /\ And(FlowF, \H80) = 0
    /\ cpu.cycles = 24 /\ cpu.pc = \H0102 /\ cpu.sp = \HFFFC

\* RET Z not taken; PUSH onto DIV
RetNotTaken ==
    ~(obs.kind = "op" /\ obs.op = \HC8 /\ And(FlowF, \H80) = 0 /\ cpu.cycles = 8)
PushOntoDiv ==
    ~(rom \in PushOnDivProgs /\ obs.kind = "op" /\ obs.op = \HF5 /\ timer.div = 4)

(***************************************************************************)
(* The frame sequencer (SpecSeq)                                           *)
(***************************************************************************)
\* the length enable and the envelope of channel n (channel 3 has none)
LengthEn(a, n) ==
    CASE n = 1 -> a.ch1_length_en [] n = 2 -> a.ch2_length_en
      [] n = 3 -> a.ch3_length_en [] OTHER -> a.ch4_length_en
EnvPeriod(a, n) ==
    CASE n = 1 -> a.ch1_env_period [] n = 2 -> a.ch2_env_period
      [] n = 3 -> 0 [] OTHER -> a.ch4_env_period
EnvAdd(a, n) ==
    CASE n = 1 -> a.ch1_env_add [] n = 2 -> a.ch2_env_add
      [] n = 3 -> FALSE [] OTHER -> a.ch4_env_add

\* a volume moved by 1 in the envelope's direction, kept within 0 .. 15
EnvMoved(vol, add) ==
    IF add THEN (IF vol < 15 THEN vol + 1 ELSE 15)
    ELSE (IF vol > 0 THEN vol - 1 ELSE 0)

\* C35: a tick of the frame sequencer advances the step modulo 8; on steps 0,
\* 2, 4 and 6 each channel with its length enabled and length > 0 has the
\* length decremented and is disabled when it reaches 0; on step 7 channels
\* 1, 2 and 4 with a non-zero envelope period have the volume moved by 1 in
\* the envelope direction within 0 .. 15; no other step changes a length or a
\* volume.
C35_FrameSequencer ==
    [][ steps' = steps + 1 =>
          /\ apu'.frame_seq = (apu.frame_seq + 1) % 8
          /\ \A n \in 1 .. 4 :
                LET c == Channel(apu, n)
                    d == Channel(apu', n)
                IN  /\ IF apu.frame_seq \in {0, 2, 4, 6} /\ LengthEn(apu, n)
                          /\ c.length > 0
                       THEN /\ d.length = c.length - 1
                            /\ d.length = 0 => ~d.enabled
                       ELSE d.length = c.length
                    /\ IF apu.frame_seq = 7 /\ EnvPeriod(apu, n) > 0
                       THEN d.vol = EnvMoved(c.vol, EnvAdd(apu, n))
                       ELSE d.vol = c.vol
      ]_vars

\* two rounds of the sequencer: channel 1's rising envelope has reached 15
\* and stayed there, channel 2's length has run out and disabled it
C35_Witness ==
    /\ steps = 16 /\ apu.frame_seq = 0
    /\ apu.ch1_env_add /\ apu.ch1_vol_init = 14 /\ apu.ch1_vol = 15
    /\ apu.ch2_length_en /\ apu.ch2_length = 0 /\ ~apu.ch2_enabled
    /\ apu.ch2_dac

\* a falling envelope at 0; a length of 2 half way down
EnvelopeAtZero ==
    ~(steps = 16 /\ ~apu.ch4_env_add /\ apu.ch4_env_period > 0 /\ apu.ch4_vol = 0
      /\ apu.ch4_vol_init = 1)
LengthHalfWay ==
    ~(steps = 2 /\ apu.ch3_length_en /\ apu.ch3_length = 1 /\ apu.ch3_enabled)

\* the frequency code after one sweep calculation
Swept(freq, neg, shift) ==
    IF neg THEN freq - Shr(freq, shift) ELSE freq + Shr(freq, shift)

\* C36: on steps 2 and 6 of the frame sequencer channel 1's sweep is clocked:
\* with a non-zero sweep period and shift the tick leaves channel 1's
\* frequency code updated by the shifted amount, added or subtracted as the
\* negate bit says.
C36_SweepClocked ==
    [][ /\ steps' = steps + 1
        /\ apu.frame_seq \in {2, 6}
        /\ apu.ch1_sweep_period > 0 /\ apu.ch1_sweep_shift > 0
        /\ apu.ch1_enabled
        => apu'.ch1_freq =
              Swept(apu.ch1_freq, apu.ch1_sweep_neg, apu.ch1_sweep_shift)
      ]_vars

\* no tick of the frame sequencer changes channel 1's frequency code
SweepNeverClocked == [][ steps' = steps + 1 => apu'.ch1_freq = apu.ch1_freq ]_vars

(***************************************************************************)
(* Mode and line (SpecPpu)                                                 *)
(***************************************************************************)
\* C37: in every state reached by PPU ticks and register writes the mode is 1
\* iff LY >= 144: modes 2, 3 and 0 occur on lines 0..143 only, and a step that
\* renders a scanline (the end of mode 3) finds LY < 144.
C37_VBlankIffLine144 ==
    /\ [](ppu.mode = 1 <=> ppu.ly >= 144)
    /\ [][ppu.mode = 3 /\ ppu'.mode = 0 => ppu.ly < 144]_vars

\* line 148 in mode 1, with 0x99 written to 0xFF44 and the LCD on
C37_Witness ==
    /\ ppu.ly = 148 /\ ppu.mode = 1
    /\ mmu.io[68] = \H99 /\ And(ppu.lcdc, \H80) # 0

\* the last visible line being rendered after a write of 0x99 to 0xFF44
LastLineRendered ==
    ~(ppu.ly = 143 /\ ppu.mode = 0 /\ ppu.cycles = 0 /\ mmu.io[68] = \H99)

(***************************************************************************)
(* Enabled channels (SpecDac)                                              *)
(***************************************************************************)
\* C38: in every state reached by register writes and frame-sequencer ticks,
\* a channel that is enabled has its DAC on and the APU powered on.
C38_EnabledImpliesDac ==
    \A n \in 1 .. 4 :
        Channel(apu, n).enabled => Channel(apu, n).dac /\ apu.master_enable

\* channel 2 triggered with its DAC on and the APU powered on
C38_Witness ==
    /\ bus.last.op = "write" /\ bus.last.addr = \H19
    /\ apu.ch2_enabled /\ apu.ch2_dac /\ apu.master_enable

\* a trigger with the DAC off; the DAC switched off on an enabled channel;
\* the APU switched off with a channel enabled; a length run out
TriggerWithDacOff ==
    ~(bus.last.op = "write" /\ bus.last.addr = \H1E /\ ~apu.ch3_dac
      /\ apu.master_enable /\ apu.ch3_length = 256)
DacOffDisables ==
    ~(bus.last.op = "write" /\ bus.last.addr = \H21 /\ bus.last.value = 0
      /\ apu.ch4_vol = 15 /\ apu.ch4_length = 64)
PowerOffDisables ==
    ~(bus.last.op = "write" /\ bus.last.addr = \H26 /\ bus.last.value = 0
      /\ apu.ch1_vol = 15 /\ apu.ch1_dac /\ apu.ch1_length = 64)
LengthOutDisables ==
    ~(apu.ch2_length_en /\ apu.ch2_length = 0 /\ apu.ch2_dac /\ apu.ch2_vol = 15
      /\ frame.count = 1)

\* C39: run_frame terminates from every state (LCD off, CPU halted with no
\* interrupt enabled, guest loop): a call that has started returns; every
\* iteration of its loop is one step() that ends after 4 to 24 T-cycles
\* and raises steps by one; steps never exceeds 140448; and the call
\* returns with frame_ready set or with steps = 140448.
C39_RunFrameTerminates ==
    /\ frame.running ~> ~frame.running
    /\ [](steps <= 140448)
    /\ [](~frame.running /\ frame.count >= 1 =>
            ppu.frame_ready \/ steps = 140448)
    /\ [][frame.running /\ frame'.running =>
            /\ steps' = steps + 1
            /\ cpu'.cycles \in 4 .. 24]_vars

\* a call returned from the guest's endless loop JR -2 at the frame's end
C39_Witness ==
    /\ ~frame.running
    /\ frame.count = 1
    /\ rom = <<\H18, \HFE>>
    /\ ppu.frame_ready
    /\ steps = 5472

\* a call returned after 140448 steps with the LCD off and no frame ready
RunFrameHitsBound ==
    /\ ~frame.running
    /\ frame.count = 1
    /\ steps = max_steps
    /\ ~ppu.frame_ready
    /\ And(ppu.lcdc, \H80) = 0

\* a call returned with the CPU halted, IE = 0, at the frame's end
RunFrameReturnsHalted ==
    /\ ~frame.running
    /\ frame.count = 1
    /\ cpu.halted
    /\ mmu.ie = 0
    /\ ppu.frame_ready
    /\ steps < max_steps

\* IF bit 2, the timer's request
TimerIF == And(mmu.io[15], \H04) # 0

\* C40: a halted CPU keeps the clocks running: a step() that leaves the CPU
\* halted takes 4 T-cycles and advances the timer and the PPU by 4 each;
\* and when the CPU is halted with TAC bit 2 and IE bit 2 set, repeated
\* step() calls lead to a TIMA overflow that sets IF bit 2, and to halted
\* being false.
C40_HaltedClocksRun ==
    /\ [][cpu.halted /\ cpu'.halted /\ steps' # steps =>
            /\ cpu'.cycles = 4
            /\ obs'.tadv = 4
            /\ obs'.padv = 4
            /\ timer'.div = (timer.div + 4) % 65536
            /\ total'.ppu = total.ppu + 4]_vars
    /\ HaltedOnTimer ~> (And(obs.raised, \H04) # 0 /\ TimerIF)
    /\ HaltedOnTimer ~> ~cpu.halted

\* TAC = 0x05, IME clear: the halted CPU has just been woken by the timer's
\* request, 4096 T-cycles after the timer was started
C40_Witness ==
    /\ obs.woke
    /\ ~cpu.halted
    /\ ~cpu.ime
    /\ TimerIF
    /\ timer.tac = \H05
    /\ mmu.ie = \H04
    /\ steps > 1024

\* TAC bit 2 clear: the CPU is still halted when the run is cut
HaltedForGood ==
    /\ cpu.halted
    /\ And(timer.tac, \H04) = 0
    /\ steps = MaxHaltSteps

\* IME set: the timer's interrupt was served from the halted state a second
\* time
ServedFromHaltTwice ==
    /\ obs.kind = "irq"
    /\ cpu.pc = \H0050
    /\ steps > MaxHaltSteps

====
